---- MODULE Spec2Model ----
(***************************************************************************)
(* Model of the authenticated-request pipeline of go-robinhoodcrypto:      *)
(*   - ratelimit.RateLimiter, a wrapper around golang.org/x/time/rate      *)
(*   - auth.Authenticator.GetAuthHeaders                                   *)
(*   - client.Client.request / Client.do (retry loop)                      *)
(*   - errors.ParseAPIError                                                *)
(*                                                                         *)
(* Time is counted in ticks.  One tick is the unit of time.Duration in the *)
(* model, so the integer division of NewRateLimiter is kept.  Token counts *)
(* (float64 in the code) are stored multiplied by TokenScale so that every *)
(* refill of the modelled rates is an integer.                             *)
(***************************************************************************)
EXTENDS Integers, Sequences, FiniteSets, TLC

---------------------------------------------------------------------------
(* Bounds of the model *)

MaxTime == 8
MaxCapacity == 2
MaxRefillAmount == 2
MaxRefillInterval == 2
MaxBucketTime == 3

\* The calls of SetBurst and SetLimit that the callers of a shared bucket make.
MaxReconfigs == 1

\* The pages of a listing, and the calls of the fetcher on one paginator.
MaxPages == 3

MaxFetches == 4

\* By how many bytes the private keys tried are shorter or longer than a key.
MaxKeySlack == 2

\* The seconds after the documented timestamp at which requests are signed.
MaxClockReads == 5

\* The logical calls that run at once on one client.
MaxCalls == 2

\* The operations the goroutines on one bucket begin, all together.
MaxOps == 3

(* Program constants *)

\* TestRateLimiter_ConcurrentAccess: the goroutines on one bucket
Goroutines == 3

maxRetries == 3
retryDelay == 1

\* time.Minute of DefaultRateLimiter, in ticks of 600 ms: the time in which
\* the default bucket gains one token.
Minute == 100

---------------------------------------------------------------------------
(* Helpers *)

Min(a, b) == IF a < b THEN a ELSE b

RECURSIVE Factorial(_)
Factorial(n) == IF n <= 1 THEN 1 ELSE n * Factorial(n - 1)

\* Token counts are stored in units of 1/TokenScale token.
TokenScale == Factorial(MaxRefillInterval)

\* a / b for b > 0, rounded away from zero to a whole number.  A duration
\* that is not a whole number of ticks is over at the first tick after it.
AwayDiv(a, b) == IF a >= 0 THEN (a + b - 1) \div b ELSE 0 - ((0 - a + b - 1) \div b)

---------------------------------------------------------------------------
(* golang.org/x/time/rate, as used through ratelimit.RateLimiter *)

\* rate.Inf: the infinite rate limit.
Inf == 0 - 1

\* time.Duration(math.MaxInt64), the "no limit" wait duration.
InfDuration == 1000 * (MaxTime + 1)

\* rate.Every(interval): one token every interval ticks, Inf for interval <= 0.
\* The result is in scaled tokens per tick.
Every(interval) == IF interval <= 0 THEN Inf ELSE TokenScale \div interval

\* Limit.tokensFromDuration
tokensFromDuration(limit, d) ==
    IF limit = Inf THEN (IF d > 0 THEN InfDuration ELSE 0)
    ELSE IF limit <= 0 THEN 0
    ELSE d * limit

\* Limit.durationFromTokens
durationFromTokens(limit, tokens) ==
    IF limit <= 0 THEN InfDuration ELSE AwayDiv(tokens, limit)

\* A limiter that starts with no tokens.
NewLimiterEmpty(r, b) ==
    [limit |-> r, burst |-> b, tokens |-> 0, last |-> 0, lastEvent |-> 0]

\* rate.NewLimiter(r, b)
NewLimiter(r, b) ==
    [limit |-> r, burst |-> b, tokens |-> b * TokenScale, last |-> 0, lastEvent |-> 0]

\* Limiter.advance(t): the token count at time t (state is not changed).
advance(l, t) ==
    LET last == IF t < l.last THEN t ELSE l.last
        elapsed == t - last
        tokens == l.tokens + tokensFromDuration(l.limit, elapsed)
    IN  IF tokens > l.burst * TokenScale THEN l.burst * TokenScale ELSE tokens

\* A reservation that is granted at once and takes nothing.
reserveNFree(l, t, n, maxFutureReserve) ==
    [lim |-> l, r |-> [ok |-> TRUE, tokens |-> n, timeToAct |-> t, limit |-> 0]]

\* Limiter.reserveN(t, n, maxFutureReserve): the limiter afterwards and the
\* reservation.
reserveN(l, t, n, maxFutureReserve) ==
    IF l.limit = Inf
      THEN [lim |-> l,
            r |-> [ok |-> TRUE, tokens |-> n, timeToAct |-> t, limit |-> 0]]
    ELSE IF l.limit = 0
      THEN LET ok == l.burst >= n
               b == IF ok THEN l.burst - n ELSE l.burst
           IN  [lim |-> [l EXCEPT !.burst = b],
                r |-> [ok |-> ok, tokens |-> b, timeToAct |-> t, limit |-> 0]]
    ELSE LET tokens == advance(l, t) - n * TokenScale
             waitDuration == IF tokens < 0
                               THEN durationFromTokens(l.limit, 0 - tokens)
                               ELSE 0
             ok == n <= l.burst /\ waitDuration <= maxFutureReserve
         IN  IF ok
               THEN [lim |-> [l EXCEPT !.last = t, !.tokens = tokens,
                                       !.lastEvent = t + waitDuration],
                     r |-> [ok |-> TRUE, tokens |-> n,
                            timeToAct |-> t + waitDuration, limit |-> l.limit]]
               ELSE [lim |-> l,
                     r |-> [ok |-> FALSE, tokens |-> 0, timeToAct |-> 0,
                            limit |-> l.limit]]

\* Reservation.DelayFrom(t)
DelayFrom(r, t) ==
    IF ~r.ok THEN InfDuration
    ELSE IF r.timeToAct - t < 0 THEN 0 ELSE r.timeToAct - t

\* A cancellation that gives nothing back to the bucket.
CancelKeeps(l, r, t) == l

\* Reservation.CancelAt(t): the limiter afterwards.
CancelAt(l, r, t) ==
    IF ~r.ok THEN l
    ELSE IF l.limit = Inf \/ r.tokens = 0 \/ r.timeToAct < t THEN l
    ELSE LET restoreTokens == r.tokens * TokenScale
                              - tokensFromDuration(r.limit, l.lastEvent - r.timeToAct)
         IN  IF restoreTokens <= 0 THEN l
             ELSE LET tokens == Min(advance(l, t) + restoreTokens,
                                    l.burst * TokenScale)
                      prevEvent == r.timeToAct
                                   + durationFromTokens(r.limit, 0 - r.tokens * TokenScale)
                  IN  [l EXCEPT !.last = t, !.tokens = tokens,
                                !.lastEvent =
                                    IF r.timeToAct = l.lastEvent /\ prevEvent >= t
                                      THEN prevEvent ELSE l.lastEvent]

\* Limiter.SetBurstAt(t, newBurst)
SetBurstAt(l, t, newBurst) ==
    [l EXCEPT !.last = t, !.tokens = advance(l, t), !.burst = newBurst]

\* Limiter.SetLimitAt(t, newLimit)
SetLimitAt(l, t, newLimit) ==
    [l EXCEPT !.last = t, !.tokens = advance(l, t), !.limit = newLimit]

\* A bucket that refills one token per refillInterval, whatever refillAmount.
NewRateLimiterOnePerInterval(maxCapacity, refillAmount, refillInterval) ==
    [limiter |-> NewLimiter(Every(refillInterval), maxCapacity),
     maxCapacity |-> maxCapacity,
     refillAmount |-> refillAmount,
     refillInterval |-> refillInterval]

---------------------------------------------------------------------------
(* ratelimit.RateLimiter *)

NewRateLimiter(maxCapacity, refillAmount, refillInterval) ==
    [limiter |-> NewLimiter(Every(refillInterval \div refillAmount), maxCapacity),
     maxCapacity |-> maxCapacity,
     refillAmount |-> refillAmount,
     refillInterval |-> refillInterval]

\* DefaultRateLimiter()
DefaultRateLimiter == NewRateLimiter(300, 100, Minute)

\* An Allow that takes a token of the future when none is left:
\* Reserve().OK() in the place of Allow().
AllowNByReserve(l, t, n) == reserveN(l, t, n, InfDuration)

\* An Allow that takes from the count also when it returns false.
AllowNSpends(l, t, n) ==
    LET rr == reserveN(l, t, n, 0)
    IN  IF rr.r.ok THEN rr
        ELSE [lim |-> [l EXCEPT !.last = t,
                                !.tokens = advance(l, t) - n * TokenScale],
              r |-> rr.r]

\* RateLimiter.Allow: rate.Limiter.AllowN(t, n) with n = 1
AllowN(l, t, n) == reserveN(l, t, n, 0)

\* RateLimiter.Reserve: rate.Limiter.ReserveN(t, n) with n = 1
ReserveN(l, t, n) == reserveN(l, t, n, InfDuration)

\* The rates SetLimit is called with: none, the finite rates, rate.Inf.
Limits == {0, Inf} \cup {Every(i) : i \in 1..MaxRefillInterval}


---------------------------------------------------------------------------
(* Strings are sequences of one-character strings. *)

Digits == <<"0", "1", "2", "3", "4", "5", "6", "7", "8", "9">>

\* strconv.FormatInt(n, 10) for n >= 0
RECURSIVE FormatInt(_)
FormatInt(n) ==
    IF n < 10 THEN <<Digits[n + 1]>>
    ELSE FormatInt(n \div 10) \o <<Digits[(n % 10) + 1]>>

---------------------------------------------------------------------------
(* errors: an error value is the chain of its %w layers, outermost first;  *)
(* the nil error is the empty chain.  A layer made by the retry loop also  *)
(* records the attempt that made it (each is a separate error value).      *)

NoAttempt == 0 - 1

Layer(msg, status, att) == [msg |-> msg, status |-> status, attempt |-> att]

Nil == << >>

Errorf(msg, cause) == <<Layer(msg, 0, NoAttempt)>> \o cause

\* context.Canceled, as returned by ctx.Err() once the context is done
CtxErr == <<Layer("context canceled", 0, NoAttempt)>>

\* context.DeadlineExceeded
DeadlineExceeded == <<Layer("context deadline exceeded", 0, NoAttempt)>>

\* errors.Is(err, context.Canceled)
IsCancellation(err) == \E i \in 1..Len(err) : err[i].msg = "context canceled"

IsRetriesExhausted(err) == Len(err) > 0 /\ err[1].msg = "max retries exceeded"

---------------------------------------------------------------------------
(* JSON texts, by their parse: k is "invalid" (not JSON, s the raw text),  *)
(* "null", "string", "number", "array" (a the elements) or "object" (o the *)
(* key/value pairs).                                                       *)

JInvalid(text) == [k |-> "invalid", s |-> text, a |-> << >>, o |-> << >>]

JNull == [k |-> "null", s |-> "", a |-> << >>, o |-> << >>]

JString(x) == [k |-> "string", s |-> x, a |-> << >>, o |-> << >>]

JNumber(x) == [k |-> "number", s |-> x, a |-> << >>, o |-> << >>]

JArray(elems) == [k |-> "array", s |-> "", a |-> elems, o |-> << >>]

JObject(pairs) == [k |-> "object", s |-> "", a |-> << >>, o |-> pairs]

HasKey(j, key) == \E i \in 1..Len(j.o) : j.o[i][1] = key

\* encoding/json keeps the last value of a repeated key.
Field(j, key) ==
    LET idx == {i \in 1..Len(j.o) : j.o[i][1] = key}
    IN  j.o[CHOOSE i \in idx : \A m \in idx : m <= i][2]

\* Decoding of a JSON value into a Go string field: "ok" and the value
\* (null leaves the field as it is: the zero value here).
DecodeString(j) ==
    IF j.k = "string" THEN [ok |-> TRUE, v |-> j.s]
    ELSE IF j.k = "null" THEN [ok |-> TRUE, v |-> ""]
    ELSE [ok |-> FALSE, v |-> ""]

\* Decoding into errors.ErrorDetail {Attr string `json:"attr"`; Detail string `json:"detail"`}
DecodeErrorDetail(j) ==
    IF j.k = "null" THEN [ok |-> TRUE, v |-> [Attr |-> "", Detail |-> ""]]
    ELSE IF j.k # "object" THEN [ok |-> FALSE, v |-> [Attr |-> "", Detail |-> ""]]
    ELSE LET a == IF HasKey(j, "attr") THEN DecodeString(Field(j, "attr"))
                  ELSE [ok |-> TRUE, v |-> ""]
             d == IF HasKey(j, "detail") THEN DecodeString(Field(j, "detail"))
                  ELSE [ok |-> TRUE, v |-> ""]
         IN  [ok |-> a.ok /\ d.ok, v |-> [Attr |-> a.v, Detail |-> d.v]]

\* Decoding into []errors.ErrorDetail
DecodeErrors(j) ==
    IF j.k = "null" THEN [ok |-> TRUE, v |-> << >>]
    ELSE IF j.k # "array" THEN [ok |-> FALSE, v |-> << >>]
    ELSE [ok |-> \A i \in 1..Len(j.a) : DecodeErrorDetail(j.a[i]).ok,
          v |-> [i \in 1..Len(j.a) |-> DecodeErrorDetail(j.a[i]).v]]

\* json.Unmarshal(body, &apiErr) for errors.APIError
\* {Type string `json:"type"`; Errors []ErrorDetail `json:"errors"`; StatusCode int `json:"-"`}
UnmarshalAPIError(j) ==
    IF j.k = "null" THEN [ok |-> TRUE, Type |-> "", Errors |-> << >>]
    ELSE IF j.k # "object" THEN [ok |-> FALSE, Type |-> "", Errors |-> << >>]
    ELSE LET t == IF HasKey(j, "type") THEN DecodeString(Field(j, "type"))
                  ELSE [ok |-> TRUE, v |-> ""]
             e == IF HasKey(j, "errors") THEN DecodeErrors(Field(j, "errors"))
                  ELSE [ok |-> TRUE, v |-> << >>]
         IN  [ok |-> t.ok /\ e.ok, Type |-> t.v, Errors |-> e.v]

\* What Client.do returns: kind is "nil" (success), "error" (err is the chain),
\* "APIError" (*errors.APIError) or "generic" (fmt.Errorf("status %d: %s")).
DoResult(kind, err, status, type, errs, body) ==
    [kind |-> kind, err |-> err, StatusCode |-> status, Type |-> type,
     Errors |-> errs, body |-> body]

\* errors.ParseAPIError(body, statusCode)
ParseAPIError(body, statusCode) ==
    LET u == UnmarshalAPIError(body)
    IN  IF ~u.ok
          THEN DoResult("generic", Nil, statusCode, "", << >>, body)
          ELSE DoResult("APIError", Nil, statusCode, u.Type, u.Errors, JNull)


---------------------------------------------------------------------------
(* auth.Authenticator *)

apiKey == <<"k">>

privateKey == "ed25519-private-key"

\* ed25519.Sign followed by base64.StdEncoding.EncodeToString: the signature
\* is a function of the key and the message only.
SignBase64(key, message) == [key |-> key, msg |-> message]

\* Authenticator.GetAuthHeaders(method, path, body), with timestamp the value
\* of time.Now().Unix() read by the call.
GetAuthHeaders(method, path, body, timestamp) ==
    LET message == apiKey \o FormatInt(timestamp) \o path \o method \o body
    IN  [x_api_key |-> apiKey,
         x_signature |-> SignBase64(privateKey, message),
         x_timestamp |-> FormatInt(timestamp)]

---------------------------------------------------------------------------
(* encoding/base64, StdEncoding.  A text is the sequence of its characters: *)
(* a character of the alphabet is its index 0..63, and besides there are    *)
(* the padding character, a line break and a character outside the alphabet.*)

PadChar == 64

LineBreak == 65

StrayChar == 66

\* base64.StdEncoding.EncodeToString(src), src a sequence of bytes
RECURSIVE EncodeToString(_)
EncodeToString(src) ==
    IF Len(src) = 0 THEN << >>
    ELSE IF Len(src) = 1
      THEN <<src[1] \div 4, (src[1] % 4) * 16, PadChar, PadChar>>
    ELSE IF Len(src) = 2
      THEN <<src[1] \div 4, (src[1] % 4) * 16 + src[2] \div 16,
             (src[2] % 16) * 4, PadChar>>
    ELSE <<src[1] \div 4, (src[1] % 4) * 16 + src[2] \div 16,
           (src[2] % 16) * 4 + src[3] \div 64, src[3] % 64>>
         \o EncodeToString(SubSeq(src, 4, Len(src)))

IsSextet(c) == c >= 0 /\ c < 64

CorruptInput == [err |-> TRUE, bytes |-> << >>]

\* The quanta of four characters, line breaks taken out already.  Padding is
\* required, stands only at the end of the last quantum, and the bits of the
\* last character that go beyond the last byte are not looked at.
RECURSIVE decodeQuantum(_)
decodeQuantum(s) ==
    IF Len(s) = 0 THEN [err |-> FALSE, bytes |-> << >>]
    ELSE IF Len(s) < 4 THEN CorruptInput
    ELSE IF ~(IsSextet(s[1]) /\ IsSextet(s[2])) THEN CorruptInput
    ELSE IF s[3] = PadChar
      THEN IF s[4] = PadChar /\ Len(s) = 4
             THEN [err |-> FALSE, bytes |-> <<s[1] * 4 + s[2] \div 16>>]
             ELSE CorruptInput
    ELSE IF ~IsSextet(s[3]) THEN CorruptInput
    ELSE IF s[4] = PadChar
      THEN IF Len(s) = 4
             THEN [err |-> FALSE,
                   bytes |-> <<s[1] * 4 + s[2] \div 16,
                               (s[2] % 16) * 16 + s[3] \div 4>>]
             ELSE CorruptInput
    ELSE IF ~IsSextet(s[4]) THEN CorruptInput
    ELSE LET rest == decodeQuantum(SubSeq(s, 5, Len(s)))
         IN  IF rest.err THEN CorruptInput
             ELSE [err |-> FALSE,
                   bytes |-> <<s[1] * 4 + s[2] \div 16,
                               (s[2] % 16) * 16 + s[3] \div 4,
                               (s[3] % 4) * 64 + s[4]>> \o rest.bytes]

NotLineBreak(c) == c # LineBreak

\* base64.StdEncoding.DecodeString(s): the bytes, or a CorruptInputError
Base64DecodeString(s) == decodeQuantum(SelectSeq(s, NotLineBreak))

---------------------------------------------------------------------------
(* auth.NewAuthenticator and client.New *)

\* ed25519.PrivateKeySize
PrivateKeySize == 64

\* The nil *Authenticator
NilAuthenticator == [nil |-> TRUE, apiKey |-> << >>, privateKey |-> << >>]

\* A constructor that takes whatever bytes the text decodes to for the key.
NewAuthenticatorAnySize(key, base64PrivateKey) ==
    LET decoded == Base64DecodeString(base64PrivateKey)
    IN  IF decoded.err
          THEN [auth |-> NilAuthenticator,
                err |-> Errorf("failed to decode private key",
                               Errorf("illegal base64 data", Nil))]
          ELSE [auth |-> [nil |-> FALSE, apiKey |-> key,
                          privateKey |-> decoded.bytes],
                err |-> Nil]

\* auth.NewAuthenticator(apiKey, base64PrivateKey): the authenticator and
\* the error
NewAuthenticator(key, base64PrivateKey) ==
    LET decoded == Base64DecodeString(base64PrivateKey)
    IN  IF decoded.err
          THEN [auth |-> NilAuthenticator,
                err |-> Errorf("failed to decode private key",
                               Errorf("illegal base64 data", Nil))]
        ELSE IF Len(decoded.bytes) # PrivateKeySize
          THEN [auth |-> NilAuthenticator,
                err |-> Errorf("invalid private key size", Nil)]
        ELSE [auth |-> [nil |-> FALSE, apiKey |-> key,
                        privateKey |-> decoded.bytes],
              err |-> Nil]

\* The nil *Client
NilClient == [nil |-> TRUE, auth |-> NilAuthenticator]

\* client.New(apiKey, privateKey), without options: the client and the
\* error.  Of the client only the authenticator depends on the arguments.
NewClient(key, base64PrivateKey) ==
    LET built == NewAuthenticator(key, base64PrivateKey)
    IN  IF built.err # Nil
          THEN [client |-> NilClient,
                err |-> Errorf("failed to create authenticator", built.err)]
          ELSE [client |-> [nil |-> FALSE, auth |-> built.auth], err |-> Nil]

---------------------------------------------------------------------------
(* Signing.  ed25519 is taken as a signature scheme that works: a signature *)
(* is what was signed and with which key, and it verifies against a public  *)
(* key when it was made over the same message with the private key of that *)
(* public key, whose second half is the public key itself.                  *)

\* The alphabet of base64.StdEncoding
Alphabet ==
    <<"A", "B", "C", "D", "E", "F", "G", "H", "I", "J", "K", "L", "M", "N",
      "O", "P", "Q", "R", "S", "T", "U", "V", "W", "X", "Y", "Z", "a", "b",
      "c", "d", "e", "f", "g", "h", "i", "j", "k", "l", "m", "n", "o", "p",
      "q", "r", "s", "t", "u", "v", "w", "x", "y", "z", "0", "1", "2", "3",
      "4", "5", "6", "7", "8", "9", "+", "/">>

\* A text written in characters, as the decoder reads it.
CharIndex(c) ==
    IF c = "=" THEN PadChar
    ELSE IF \E i \in 1..64 : Alphabet[i] = c
      THEN (CHOOSE i \in 1..64 : Alphabet[i] = c) - 1
    ELSE StrayChar

Base64Text(chars) == [i \in 1..Len(chars) |-> CharIndex(chars[i])]

\* The example signature of the API documentation.
DocPrivateKey ==
    <<"x", "Q", "n", "T", "J", "V", "e", "Q", "L", "m", "w", "1", "/", "M",
      "g", "2", "Y", "i", "m", "E", "V", "i", "S", "p", "w", "/", "S", "d",
      "J", "c", "g", "N", "X", "Z", "5", "k", "Q", "k", "A", "X", "N", "P",
      "U", "=">>

DocPublicKey ==
    <<"j", "P", "I", "t", "x", "4", "T", "L", "j", "c", "n", "S", "U", "n",
      "m", "n", "X", "Q", "Q", "y", "A", "K", "L", "4", "e", "J", "j", "3",
      "+", "o", "W", "N", "N", "M", "m", "m", "m", "2", "v", "A", "T", "q",
      "k", "=">>

DocAPIKey ==
    <<"r", "h", "-", "a", "p", "i", "-", "6", "1", "4", "8", "e", "f", "f",
      "c", "-", "c", "0", "b", "1", "-", "4", "8", "6", "c", "-", "8", "9",
      "4", "0", "-", "a", "1", "d", "0", "9", "9", "4", "5", "6", "b", "e",
      "6">>

DocPath ==
    <<"/", "a", "p", "i", "/", "v", "1", "/", "c", "r", "y", "p", "t", "o",
      "/", "t", "r", "a", "d", "i", "n", "g", "/", "o", "r", "d", "e", "r",
      "s", "/">>

DocBody ==
    <<"{", "\"", "c", "l", "i", "e", "n", "t", "_", "o", "r", "d", "e",
      "r", "_", "i", "d", "\"", ":", "\"", "1", "3", "1", "d", "e", "9",
      "0", "3", "-", "5", "a", "9", "c", "-", "4", "2", "6", "0", "-", "a",
      "b", "c", "1", "-", "2", "8", "d", "5", "6", "2", "a", "5", "d", "c",
      "f", "0", "\"", ",", "\"", "s", "i", "d", "e", "\"", ":", "\"", "b",
      "u", "y", "\"", ",", "\"", "t", "y", "p", "e", "\"", ":", "\"", "m",
      "a", "r", "k", "e", "t", "\"", ",", "\"", "s", "y", "m", "b", "o",
      "l", "\"", ":", "\"", "B", "T", "C", "-", "U", "S", "D", "\"", ",",
      "\"", "m", "a", "r", "k", "e", "t", "_", "o", "r", "d", "e", "r",
      "_", "c", "o", "n", "f", "i", "g", "\"", ":", "{", "\"", "a", "s",
      "s", "e", "t", "_", "q", "u", "a", "n", "t", "i", "t", "y", "\"",
      ":", "\"", "0", ".", "1", "\"", "}", "}">>

DocTimestamp == 1698708981

DocTimestampText == <<"1", "6", "9", "8", "7", "0", "8", "9", "8", "1">>

\* The key the authenticator is given for the example: the seed followed by
\* the public key, encoded.
DocFullKey ==
    EncodeToString(Base64DecodeString(Base64Text(DocPrivateKey)).bytes
                   \o Base64DecodeString(Base64Text(DocPublicKey)).bytes)

\* The pairs of seed and public key that belong together: the documented one.
KeyPairs ==
    {<<Base64DecodeString(Base64Text(DocPrivateKey)).bytes,
       Base64DecodeString(Base64Text(DocPublicKey)).bytes>>}

\* ed25519.Verify(publicKey, message, sig), sig a signature decoded from its
\* base64 text
Verify(publicKey, message, sig) ==
    /\ Len(sig.key) = PrivateKeySize
    /\ <<SubSeq(sig.key, 1, 32), publicKey>> \in KeyPairs
    /\ SubSeq(sig.key, 33, 64) = publicKey
    /\ sig.msg = message

\* Headers signed over the message with the method before the path.
GetAuthHeadersMethodFirst(a, method, path, body, timestamp) ==
    LET message == a.apiKey \o FormatInt(timestamp) \o method \o path \o body
    IN  [x_api_key |-> a.apiKey,
         x_signature |-> SignBase64(a.privateKey, message),
         x_timestamp |-> FormatInt(timestamp)]

\* Authenticator.GetAuthHeaders(method, path, body) of the authenticator a,
\* with timestamp the value of time.Now().Unix() read by the call.
GetAuthHeadersOf(a, method, path, body, timestamp) ==
    LET message == a.apiKey \o FormatInt(timestamp) \o path \o method \o body
    IN  [x_api_key |-> a.apiKey,
         x_signature |-> SignBase64(a.privateKey, message),
         x_timestamp |-> FormatInt(timestamp)]

---------------------------------------------------------------------------
(* client.Client.request and Client.do: the inputs of a logical call *)

GET == <<"G", "E", "T">>

POST == <<"P", "O", "S", "T">>

OrdersPath == <<"/", "o">>

\* A path that url.Parse rejects.
BadPath == <<"%", "z">>

\* The bodies a caller passes: none (nil), an order request, and a value
\* json.Marshal cannot encode.
NoBody == "nil"

OrderBody == "order"

BadBody == "unmarshalable"

\* json.Marshal(body)
Marshal(body) ==
    IF body = OrderBody THEN [ok |-> TRUE, bytes |-> <<"{", "}">>]
    ELSE [ok |-> FALSE, bytes |-> << >>]

\* url.Values.Encode(): nil when the caller passes no query
NoQuery == << >>

SymbolQuery == <<"s", "=", "B">>

\* http.NewRequestWithContext accepts the method
ValidMethod(method) == method \in {GET, POST}

\* url.Parse accepts the path
ValidURL(path) == path # BadPath

Input(method, path, query, body) ==
    [method |-> method, path |-> path, query |-> query, body |-> body]

Inputs ==
    {Input(GET, OrdersPath, SymbolQuery, NoBody),
     Input(POST, OrdersPath, NoQuery, OrderBody),
     Input(<<"G", " ">>, OrdersPath, NoQuery, NoBody),
     Input(GET, BadPath, NoQuery, NoBody),
     Input(POST, OrdersPath, NoQuery, BadBody)}

\* The statuses a response can carry.
Statuses == {200, 299, 300, 404, 429, 500}

\* The bodies a response can carry.
ValidationErrorBody ==
    JObject(<<
        <<"type", JString("validation_error")>>,
        <<"errors", JArray(<<JObject(<< <<"detail", JString("Must be a valid UUID.")>>,
                                        <<"attr", JString("client_order_id")>> >>)>>)>> >>)

NullAttrBody ==
    JObject(<<
        <<"type", JString("client_error")>>,
        <<"errors", JArray(<<JObject(<< <<"detail", JString("Too many requests")>>,
                                        <<"attr", JNull>> >>)>>)>> >>)

EmptyErrorsBody ==
    JObject(<< <<"type", JString("server_error")>>, <<"errors", JArray(<< >>)>> >>)

OtherShapeBody == JObject(<< <<"message", JString("Not Found")>> >>)

WrongTypeBody == JObject(<< <<"type", JNumber("5")>>, <<"errors", JArray(<< >>)>> >>)

RespBodies ==
    {JInvalid(""), JInvalid("{invalid json"), JString("Internal Server Error"),
     JNull, JArray(<< >>), ValidationErrorBody, NullAttrBody, EmptyErrorsBody,
     OtherShapeBody, WrongTypeBody}

\* len(respBody) > 0 and json.Unmarshal(respBody, result) of a 2xx response
\* into the result struct of the endpoint fails
ResultParseFails(body) ==
    /\ body # JInvalid("")
    /\ body.k \notin {"object", "null"}

---------------------------------------------------------------------------
(* The state *)

VARIABLES
    now,          \* the clock, in ticks
    rl,           \* the ratelimit.RateLimiter (of the client)
    ctx,          \* the caller's context: "live" or, once cancelled, "done"
                  \* ("done first" when it was cancelled during a sleep whose
                  \* timer had not fired, "done tie" when both came together)
    pc,           \* where the logical call is
    in,           \* the arguments of the call
    bodyStr,      \* request: bodyStr
    readerPos,    \* request: the read offset of bodyReader
    attempt,      \* request: attempt
    wakeAt,       \* when the timer of the current sleep fires
    resv,         \* rate.Limiter.Wait: the reservation it sleeps on
    req,          \* the *http.Request built in the current attempt
    lastErr,      \* request: lastErr
    reqRet,       \* what request returned: resp, err
    doRet,        \* what do returned
    doCalls,      \* the number of calls of httpClient.Do
    dispatches,   \* the number of requests the transport sent
    lastStatus,   \* the status of the response Do returned last, 0 if none
    only500,      \* every retried attempt so far ended with an HTTP 500 response
    respBody,     \* the response body as do read it
    allowRun,     \* the Allow calls that returned true in a row, no other
                  \* operation and no time between them
    runCap,       \* the burst of the limiter when that row began
    runAfterCut,  \* that row began on a bucket that held more tokens than its
                  \* burst and had been idle since
    burstSet,     \* SetBurst has been called
    waiter,       \* the caller of Wait on a shared bucket
    holder,       \* the caller of Reserve on a shared bucket
    promised,     \* a Reserve or a Wait was granted a token not yet available
    grants,       \* the admissions granted without delay in a row, no time
                  \* and no other operation between them
    grantCap,     \* the burst of the limiter when that row began
    reconfigs,    \* the calls of SetBurst and SetLimit on the shared bucket
    shadow,       \* the limiter as it would be, had the Wait under way (or
                  \* the last one) never been called
    idle,         \* since when nothing was taken from the bucket, and the
                  \* token count then
    win,          \* a window of time: where it starts and the calls admitted
                  \* in it
    nextURL,      \* Paginator.nextURL
    prevURL,      \* Paginator.prevURL
    pages,        \* the listing the endpoint serves, page by page
    made,         \* how the paginator came to be
    run,          \* the GetAllPages under way
    last,         \* the last call on the paginator and what it returned
    fetches,      \* the calls of the fetcher so far
    asked,        \* the cursors passed to the fetcher since the paginator
                  \* last went back, in order, and whether the fetch failed
    newArgs,      \* the credentials the last constructor call was given
    newRet,       \* what that call returned
    signed,       \* the last call of GetAuthHeaders and its headers
    firstRun,     \* the Allow calls on a bucket just made: how many returned
                  \* true, and whether one has returned false
    placed,       \* the last call of PlaceOrder: its request, what it sent
                  \* and what it returned
    admitted,     \* request: the calls of rateLimiter.Wait that returned nil
    spent,        \* request: what its reservations took from the bucket
    firstFailedAt, \* request: when its first attempt failed (until it returns)
    sleepFrom,    \* request: when the backoff sleep under way began
    ops,          \* the callers of one bucket, by goroutine: the operation
                  \* each is in, and where in it
    held,         \* who holds RateLimiter.mu and rate.Limiter.mu, and the
                  \* operations begun
    server,       \* the token bucket of the API documentation, that the
                  \* calls admitted by the client's bucket reach
    calls         \* the logical calls that run at once on one client: for
                  \* each where it is, its attempt, its timer, what its Wait
                  \* read, and the requests it has dispatched

callVars == <<ctx, pc, in, bodyStr, readerPos, attempt, wakeAt, resv, req,
              lastErr, reqRet, doRet, doCalls, dispatches, lastStatus, only500,
              respBody>>

bucketVars == <<allowRun, runCap, runAfterCut, burstSet>>

\* What the steps of a logical call leave alone, and the steps on a bucket.
callerVars == <<waiter, holder, promised, grants, grantCap, reconfigs>>

\* What the steps of a logical call leave alone, the steps on a bucket, and
\* the steps of the callers of a shared bucket.
refillVars == <<idle, win>>

pagerVars == <<nextURL, prevURL, pages, made, run, last, fetches, asked>>

newVars == <<newArgs, newRet, signed>>

freshVars == <<firstRun>>

orderVars == <<placed>>

attemptVars == <<admitted, spent, firstFailedAt, sleepFrom>>

lockVars == <<ops, held>>

sharedVars == <<calls, lockVars, server>>

\* What a step of the call leaves alone beside the call and its attempts.
besideAttempt ==
    <<bucketVars, callerVars, shadow, refillVars, pagerVars, newVars, freshVars, orderVars,
      sharedVars>>

besideCall == <<besideAttempt, attemptVars>>

besideBucket == <<callVars, callerVars, shadow, refillVars, pagerVars, newVars, freshVars,
      orderVars, attemptVars,
      sharedVars>>

besideCallers == <<callVars, bucketVars, shadow, refillVars, pagerVars, newVars, freshVars,
      orderVars, attemptVars,
      sharedVars>>

besideShadow == <<callVars, bucketVars, refillVars, pagerVars, newVars, freshVars,
      orderVars, attemptVars,
      sharedVars>>

besideRefill == <<callVars, bucketVars, callerVars, shadow, pagerVars, newVars, freshVars,
      orderVars, attemptVars,
      sharedVars>>

besidePager ==
    <<now, rl, callVars, bucketVars, callerVars, shadow, refillVars, newVars, freshVars,
      orderVars, attemptVars, sharedVars>>

besideNew ==
    <<now, rl, callVars, bucketVars, callerVars, shadow, refillVars, pagerVars, freshVars,
      orderVars, attemptVars, sharedVars>>

besideFresh ==
    <<callVars, bucketVars, callerVars, shadow, refillVars, pagerVars, newVars,
      orderVars, attemptVars, sharedVars>>

besideOrder ==
    <<now, rl, callVars, bucketVars, callerVars, shadow, refillVars, pagerVars,
      newVars, freshVars, attemptVars, sharedVars>>

besideShared ==
    <<callVars, bucketVars, callerVars, shadow, refillVars, pagerVars,
      newVars, freshVars, orderVars, attemptVars, lockVars, server>>

besideLocks ==
    <<callVars, bucketVars, callerVars, shadow, refillVars, pagerVars,
      newVars, freshVars, orderVars, attemptVars, calls, server>>

besideServer ==
    <<callVars, bucketVars, callerVars, shadow, refillVars, pagerVars,
      newVars, freshVars, orderVars, attemptVars, calls, lockVars>>

vars ==
    <<now, rl, callVars, bucketVars, callerVars, shadow, refillVars, pagerVars,
      newVars, freshVars,
      orderVars, attemptVars, sharedVars>>

\* A call that never looks at its context.
ctxNeverDone == FALSE

\* ctx.Done() is closed
ctxDone == ctx # "live"

NoTimer == 0 - 1

NoResv == [ok |-> FALSE, tokens |-> 0, timeToAct |-> 0, limit |-> 0]

NoReq ==
    [method |-> << >>, body |-> << >>, signedBody |-> << >>,
     headers |-> GetAuthHeaders(<< >>, << >>, << >>, 0), attempt |-> NoAttempt,
     timestamp |-> 0]

NoResp == [StatusCode |-> 0]

Ret(resp, err) == [resp |-> resp, err |-> err]

NoRet == Ret(NoResp, Nil)

NoDoRet == DoResult("none", Nil, 0, "", << >>, JNull)

NotRead == [ok |-> FALSE, body |-> JNull]

---------------------------------------------------------------------------
(* Client.request *)

\* The transient errors the retry loop records in lastErr.
TransportErr == <<Layer("transport error", 0, NoAttempt)>>

RequestFailed(att, cause) == <<Layer("request failed", 0, att)>> \o cause

RateLimited(att) == <<Layer("rate limited (429)", 429, att)>>

ServerError(att, status) == <<Layer("server error", status, att)>>

\* A loop that runs once more: attempt <= maxRetries + 1
LoopRunsOnceMore(a) == a <= maxRetries + 1

\* for attempt := 0; attempt <= maxRetries; attempt++
LoopRuns(a) == a <= maxRetries

\* The same delay before every retry.
BackoffDelayFlat(a) == retryDelay

\* time.After(retryDelay * time.Duration(attempt))
BackoffDelay(a) == retryDelay * a

\* A classification that retries every response but 200 OK.
ClassifyOnly200(status) ==
    IF status = 429 THEN "rate limited"
    ELSE IF status # 200 THEN "server error"
    ELSE "return"

\* A classification that also retries client errors.
ClassifyRetry4xx(status) ==
    IF status = 429 THEN "rate limited"
    ELSE IF status >= 400 THEN "server error"
    ELSE "return"

\* The branches taken on resp.StatusCode after httpClient.Do returned a response.
Classify(status) ==
    IF status = 429 THEN "rate limited"
    ELSE IF status >= 500 THEN "server error"
    ELSE "return"

\* A loop that keeps the first transient error.
RecordFirstErr(old, new) == IF old = Nil THEN new ELSE old

\* lastErr = fmt.Errorf(...)
RecordLastErr(old, new) == new

\* pathWithQuery
PathWithQuery(path, query) ==
    IF query # << >> THEN path \o <<"?">> \o query ELSE path

\* Headers computed for the first attempt and reused by the later ones.
AttemptHeadersReused(prev, method, path, body, timestamp) ==
    IF prev = GetAuthHeaders(<< >>, << >>, << >>, 0)
      THEN GetAuthHeaders(method, path, body, timestamp)
      ELSE prev

\* authHeaders, err := c.auth.GetAuthHeaders(method, pathWithQuery, bodyStr),
\* called in every iteration; prev are the headers of the request before.
AttemptHeaders(prev, method, path, body, timestamp) ==
    GetAuthHeaders(method, path, body, timestamp)

\* The unread part of bodyReader: what a request built now carries
\* (http.NewRequestWithContext sets ContentLength to bodyReader.Len()).
Unread(bytes, pos) == SubSeq(bytes, pos + 1, Len(bytes))

\* A select on a timer and ctx.Done() that was entered with neither ready
\* takes the case that becomes ready first.
TimerFirst == now >= wakeAt /\ ctx # "done first"

CtxFirst == ctx \in {"done first", "done tie"}

Return(r) ==
    /\ reqRet' = r
    /\ pc' = "returned"
    /\ firstFailedAt' = NoTimer

\* The caller calls request (through do).
Request(i) ==
    /\ pc = "idle"
    /\ in' = i
    /\ IF ~ValidURL(i.path)
         THEN /\ Return(Ret(NoResp, Errorf("invalid URL", Nil)))
              /\ UNCHANGED bodyStr
       ELSE IF i.body # NoBody /\ ~Marshal(i.body).ok
         THEN /\ Return(Ret(NoResp, Errorf("failed to marshal body", Nil)))
              /\ UNCHANGED bodyStr
       ELSE /\ bodyStr' = IF i.body # NoBody THEN Marshal(i.body).bytes ELSE << >>
            /\ pc' = "loop"
            /\ UNCHANGED <<reqRet, firstFailedAt>>
    /\ UNCHANGED <<now, rl, ctx, readerPos, attempt, wakeAt, resv, req, lastErr,
                   doRet, doCalls, dispatches, lastStatus, only500, respBody,
                   admitted, spent, sleepFrom, besideAttempt>>

\* The head of the retry loop: the loop condition and, on a retry, the entry
\* of the select on ctx.Done() and time.After.
LoopHead ==
    /\ pc = "loop"
    /\ IF ~LoopRuns(attempt)
         THEN /\ Return(Ret(NoResp, Errorf("max retries exceeded", lastErr)))
              /\ UNCHANGED wakeAt
       ELSE IF attempt > 0 /\ ctxDone
         THEN /\ Return(Ret(NoResp, CtxErr))
              /\ UNCHANGED wakeAt
       ELSE /\ IF attempt > 0
                 THEN pc' = "backoff" /\ wakeAt' = now + BackoffDelay(attempt)
                 ELSE pc' = "wait" /\ UNCHANGED wakeAt
            /\ UNCHANGED <<reqRet, firstFailedAt>>
    /\ sleepFrom' = IF pc' = "backoff" THEN now ELSE sleepFrom
    /\ UNCHANGED <<now, rl, ctx, in, bodyStr, readerPos, attempt, resv, req,
                   lastErr, doRet, doCalls, dispatches, lastStatus, only500,
                   respBody, admitted, spent, besideAttempt>>

\* case <-time.After(...)
BackoffTimer ==
    /\ pc = "backoff"
    /\ TimerFirst
    /\ pc' = "wait"
    /\ wakeAt' = NoTimer
    /\ sleepFrom' = NoTimer
    /\ UNCHANGED <<now, rl, ctx, in, bodyStr, readerPos, attempt, resv, req,
                   lastErr, reqRet, doRet, doCalls, dispatches, lastStatus,
                   only500, respBody, admitted, spent, firstFailedAt, besideAttempt>>

\* case <-ctx.Done(): return nil, ctx.Err()
BackoffCtx ==
    /\ pc = "backoff"
    /\ CtxFirst
    /\ Return(Ret(NoResp, CtxErr))
    /\ wakeAt' = NoTimer
    /\ sleepFrom' = NoTimer
    /\ UNCHANGED <<now, rl, ctx, in, bodyStr, readerPos, attempt, resv, req,
                   lastErr, doRet, doCalls, dispatches, lastStatus, only500,
                   respBody, admitted, spent, besideAttempt>>

\* c.rateLimiter.Wait(ctx) up to its sleep: rate.Limiter.Wait checks the
\* burst, then the context, then reserves a token.
WaitEnter ==
    /\ pc = "wait"
    /\ LET l == rl.limiter
           rr == reserveN(l, now, 1, InfDuration)
       IN  IF 1 > l.burst /\ l.limit # Inf
             THEN /\ Return(Ret(NoResp, Errorf("rate limiter error",
                                               Errorf("exceeds limiter's burst", Nil))))
                  /\ UNCHANGED <<rl, wakeAt, resv, admitted, spent>>
           ELSE IF ctxDone
             THEN /\ Return(Ret(NoResp, Errorf("rate limiter error", CtxErr)))
                  /\ UNCHANGED <<rl, wakeAt, resv, admitted, spent>>
           ELSE IF ~rr.r.ok
             THEN /\ Return(Ret(NoResp, Errorf("rate limiter error",
                                               Errorf("would exceed context deadline", Nil))))
                  /\ UNCHANGED <<rl, wakeAt, resv, admitted, spent>>
           ELSE /\ rl' = [rl EXCEPT !.limiter = rr.lim]
                /\ spent' = spent + (advance(l, now) - rr.lim.tokens)
                /\ UNCHANGED <<reqRet, firstFailedAt>>
                /\ IF DelayFrom(rr.r, now) = 0
                     THEN /\ pc' = "build"
                          /\ admitted' = admitted + 1
                          /\ UNCHANGED <<wakeAt, resv>>
                     ELSE /\ pc' = "waitSleep"
                          /\ wakeAt' = rr.r.timeToAct
                          /\ resv' = rr.r
                          /\ UNCHANGED admitted
    /\ UNCHANGED <<now, ctx, in, bodyStr, readerPos, attempt, req, lastErr,
                   doRet, doCalls, dispatches, lastStatus, only500, respBody,
                   sleepFrom, besideAttempt>>

\* rate.Limiter.Wait: the timer fired, Wait returns nil.
WaitTimer ==
    /\ pc = "waitSleep"
    /\ TimerFirst
    /\ pc' = "build"
    /\ wakeAt' = NoTimer
    /\ resv' = NoResv
    /\ admitted' = admitted + 1
    /\ UNCHANGED <<now, rl, ctx, in, bodyStr, readerPos, attempt, req, lastErr,
                   reqRet, doRet, doCalls, dispatches, lastStatus, only500,
                   respBody, spent, firstFailedAt, sleepFrom, besideAttempt>>

\* rate.Limiter.Wait: the context was cancelled during the sleep; the
\* reservation is cancelled and ctx.Err() returned.
WaitCtx ==
    /\ pc = "waitSleep"
    /\ CtxFirst
    /\ rl' = [rl EXCEPT !.limiter = CancelAt(rl.limiter, resv, now)]
    /\ Return(Ret(NoResp, Errorf("rate limiter error", CtxErr)))
    /\ wakeAt' = NoTimer
    /\ resv' = NoResv
    /\ UNCHANGED <<now, ctx, in, bodyStr, readerPos, attempt, req, lastErr,
                   doRet, doCalls, dispatches, lastStatus, only500, respBody,
                   admitted, spent, sleepFrom, besideAttempt>>

\* http.NewRequestWithContext, the Content-Type header and the
\* authentication headers of the attempt.
BuildRequest ==
    /\ pc = "build"
    /\ IF ~ValidMethod(in.method)
         THEN /\ Return(Ret(NoResp, Errorf("failed to create request", Nil)))
              /\ UNCHANGED req
         ELSE /\ req' = [method |-> in.method,
                         body |-> Unread(bodyStr, readerPos),
                         signedBody |-> bodyStr,
                         headers |-> AttemptHeaders(req.headers, in.method,
                                        PathWithQuery(in.path, in.query), bodyStr, now),
                         attempt |-> attempt,
                         timestamp |-> now]
              /\ pc' = "do"
              /\ UNCHANGED <<reqRet, firstFailedAt>>
    /\ UNCHANGED <<now, rl, ctx, in, bodyStr, readerPos, attempt, wakeAt, resv,
                   lastErr, doRet, doCalls, dispatches, lastStatus, only500,
                   respBody, admitted, spent, sleepFrom, besideAttempt>>

\* The end of an attempt with a retryable outcome: lastErr = ...; continue
Continue(err) ==
    /\ lastErr' = RecordLastErr(lastErr, err)
    /\ attempt' = attempt + 1
    /\ pc' = "loop"
    /\ firstFailedAt' = IF attempt = 0 THEN now ELSE firstFailedAt

\* c.httpClient.Do(req) is called.  The transport sends nothing for a
\* context that is already done, and Do returns its error.
Do ==
    /\ pc = "do"
    /\ doCalls' = doCalls + 1
    /\ IF ctxDone
         THEN /\ Continue(RequestFailed(attempt, CtxErr))
              /\ lastStatus' = 0
              /\ only500' = FALSE
              /\ UNCHANGED dispatches
         ELSE /\ dispatches' = dispatches + 1
              /\ pc' = "inflight"
              /\ UNCHANGED <<lastErr, attempt, lastStatus, only500, firstFailedAt>>
    /\ UNCHANGED <<now, rl, ctx, in, bodyStr, readerPos, wakeAt, resv, req,
                   reqRet, doRet, respBody, admitted, spent, sleepFrom,
                   besideAttempt>>

\* Do returns an error: the connection failed or timed out.  The transport
\* has read k bytes of the body.
TransportFailure(k) ==
    /\ pc = "inflight"
    /\ readerPos' = readerPos + k
    /\ Continue(RequestFailed(attempt, TransportErr))
    /\ lastStatus' = 0
    /\ only500' = FALSE
    /\ UNCHANGED <<now, rl, ctx, in, bodyStr, wakeAt, resv, req, reqRet, doRet,
                   doCalls, dispatches, respBody, admitted, spent, sleepFrom,
                   besideAttempt>>

\* Do returns the context's error: it was cancelled with the call in flight.
InflightCtx(k) ==
    /\ pc = "inflight"
    /\ ctxDone
    /\ readerPos' = readerPos + k
    /\ Continue(RequestFailed(attempt, CtxErr))
    /\ lastStatus' = 0
    /\ only500' = FALSE
    /\ UNCHANGED <<now, rl, ctx, in, bodyStr, wakeAt, resv, req, reqRet, doRet,
                   doCalls, dispatches, respBody, admitted, spent, sleepFrom,
                   besideAttempt>>

\* Do returns a response, which the loop classifies.
Response(status, k) ==
    /\ pc = "inflight"
    /\ readerPos' = readerPos + k
    /\ lastStatus' = status
    /\ IF Classify(status) = "rate limited"
         THEN /\ Continue(RateLimited(attempt))
              /\ only500' = FALSE
              /\ UNCHANGED reqRet
       ELSE IF Classify(status) = "server error"
         THEN /\ Continue(ServerError(attempt, status))
              /\ only500' = (only500 /\ status = 500)
              /\ UNCHANGED reqRet
       ELSE /\ Return(Ret([StatusCode |-> status], Nil))
            /\ UNCHANGED <<lastErr, attempt, only500>>
    /\ UNCHANGED <<now, rl, ctx, in, bodyStr, wakeAt, resv, req, doRet, doCalls,
                   dispatches, respBody, admitted, spent, sleepFrom,
                   besideAttempt>>

---------------------------------------------------------------------------
(* Client.do *)

\* do, after request returned: the error of request, or the response body
\* read (io.ReadAll succeeds, readOK, with body, or fails) and the status
\* checked.
DoReturn(readOK, body) ==
    /\ pc = "returned"
    /\ pc' = "done"
    /\ respBody' = IF reqRet.err = Nil /\ readOK THEN [ok |-> TRUE, body |-> body]
                   ELSE NotRead
    /\ doRet' =
         IF reqRet.err # Nil
           THEN DoResult("error", reqRet.err, 0, "", << >>, JNull)
         ELSE IF ~readOK
           THEN DoResult("error", Errorf("failed to read response body", Nil),
                         0, "", << >>, JNull)
         ELSE IF reqRet.resp.StatusCode < 200 \/ reqRet.resp.StatusCode >= 300
           THEN ParseAPIError(body, reqRet.resp.StatusCode)
         ELSE IF ResultParseFails(body)
           THEN DoResult("error", Errorf("failed to parse response", Nil),
                         0, "", << >>, JNull)
         ELSE DoResult("nil", Nil, 0, "", << >>, JNull)
    /\ UNCHANGED <<now, rl, ctx, in, bodyStr, readerPos, attempt, wakeAt, resv,
                   req, lastErr, reqRet, doCalls, dispatches, lastStatus,
                   only500, besideCall>>

---------------------------------------------------------------------------
(* The environment of a logical call *)

\* The caller cancels the context.
Cancel ==
    /\ pc \notin {"returned", "done"}
    /\ ~ctxDone
    /\ ctx' = IF pc \in {"backoff", "waitSleep"} /\ now < wakeAt THEN "done first"
              ELSE IF pc \in {"backoff", "waitSleep"} /\ now = wakeAt THEN "done tie"
              ELSE "done"
    /\ UNCHANGED <<now, rl, pc, in, bodyStr, readerPos, attempt, wakeAt, resv,
                   req, lastErr, reqRet, doRet, doCalls, dispatches, lastStatus,
                   only500, respBody, besideCall>>

\* Time passes while the call is blocked: in a sleep, or in httpClient.Do.
\* (The call is made at time 0, when the limiter is new.)
Tick ==
    /\ now < MaxTime
    /\ pc \in {"backoff", "waitSleep", "inflight"}
    /\ now' = now + 1
    /\ UNCHANGED <<rl, callVars, besideCall>>

---------------------------------------------------------------------------
(* The logical call: one call of Client.do on a new client *)

\* The limiters a client is built with.
ClientLimiters ==
    {NewRateLimiter(c, 1, MaxRefillInterval) : c \in 1..MaxCapacity}

InitCall ==
    /\ ctx = "live"
    /\ pc = "idle"
    /\ in = Input(GET, OrdersPath, SymbolQuery, NoBody)
    /\ bodyStr = << >>
    /\ readerPos = 0
    /\ attempt = 0
    /\ wakeAt = NoTimer
    /\ resv = NoResv
    /\ req = NoReq
    /\ lastErr = Nil
    /\ reqRet = NoRet
    /\ doRet = NoDoRet
    /\ doCalls = 0
    /\ dispatches = 0
    /\ lastStatus = 0
    /\ only500 = TRUE
    /\ respBody = NotRead
    /\ admitted = 0
    /\ spent = 0
    /\ firstFailedAt = NoTimer
    /\ sleepFrom = NoTimer

InitBucketVars ==
    /\ allowRun = 0
    /\ runCap = 0
    /\ runAfterCut = FALSE
    /\ burstSet = FALSE

---------------------------------------------------------------------------
(* client.Paginator.  A URL is "" (empty), a text url.Parse refuses, or a    *)
(* URL with its query, of which only the cursor parameter matters.           *)

EmptyURL == [kind |-> "empty", cursor |-> << >>]

BadURL == [kind |-> "unparseable", cursor |-> << >>]

\* A text url.Parse refuses, in which cursor=c is written.
BadURLWith(c) == [kind |-> "unparseable", cursor |-> c]

\* A URL whose query has no cursor parameter.
BareURL == [kind |-> "url", cursor |-> << >>]

\* A URL whose query has cursor=c.
URLWith(c) == [kind |-> "url", cursor |-> c]

\* Paginator.HasNext, of a paginator that always has a next page.
HasNextAlways(u) == TRUE

\* Paginator.HasNext
HasNext(u) == u # EmptyURL

\* Paginator.HasPrevious
HasPrevious(u) == u # EmptyURL

\* A cursor extraction that finds no cursor in any URL.
extractNoCursor(u) == << >>

\* extractCursor(urlStr)
extractCursor(u) ==
    IF u = EmptyURL THEN << >>
    ELSE IF u.kind = "unparseable" THEN << >>
    ELSE u.cursor

\* The cursor the endpoint gives to page k; the first page has none.
CursorOf(k) == IF k = 1 THEN << >> ELSE FormatInt(k)

\* The page the endpoint serves for a cursor.
PageOf(cursor) ==
    IF \E k \in 2..MaxPages : CursorOf(k) = cursor
      THEN CHOOSE k \in 2..MaxPages : CursorOf(k) = cursor
      ELSE 1

\* The values of previous in a response.
Previouses == {EmptyURL, BareURL} \cup {URLWith(CursorOf(k)) : k \in 2..MaxPages}

\* PaginatedResponse of page k of a listing, with the previous given.
PageResponse(k, previous) ==
    [Next |-> IF k < MaxPages THEN URLWith(CursorOf(k + 1)) ELSE EmptyURL,
     Previous |-> previous,
     Results |-> <<k>>]

\* The listings of MaxPages pages, the last with an empty next.
Listings ==
    {[k \in 1..MaxPages |-> PageResponse(k, prev[k])] :
        prev \in [1..MaxPages -> Previouses]}

\* The error of a fetcher whose request failed.
FetcherErr == <<Layer("max retries exceeded", 0, NoAttempt)>>

\* The fetcher of NewTradingPairsPaginator, NewHoldingsPaginator and
\* NewOrdersPaginator: the response, or the error of client.do.
fetcher(cursor, fails) ==
    IF fails THEN [resp |-> pages[1], err |-> FetcherErr]
    ELSE [resp |-> pages[PageOf(cursor)], err |-> Nil]

\* A Next and Previous that drop the cursor they followed when the fetcher
\* returns an error.
FollowLosesCursor(has, url, fails) ==
    LET f == fetcher(extractCursor(url), fails)
    IN  IF ~has
          THEN [nextURL |-> nextURL, prevURL |-> prevURL, results |-> << >>,
                err |-> Nil, fetched |-> 0]
        ELSE IF f.err # Nil
          THEN [nextURL |-> IF url = nextURL THEN EmptyURL ELSE nextURL,
                prevURL |-> IF url = nextURL THEN prevURL ELSE EmptyURL,
                results |-> << >>, err |-> f.err, fetched |-> 1]
        ELSE [nextURL |-> f.resp.Next, prevURL |-> f.resp.Previous,
              results |-> f.resp.Results, err |-> Nil, fetched |-> 1]

\* A Next and Previous that store only the cursor they followed.
FollowOneCursor(has, url, fails) ==
    LET f == fetcher(extractCursor(url), fails)
    IN  IF ~has
          THEN [nextURL |-> nextURL, prevURL |-> prevURL, results |-> << >>,
                err |-> Nil, fetched |-> 0]
        ELSE IF f.err # Nil
          THEN [nextURL |-> nextURL, prevURL |-> prevURL, results |-> << >>,
                err |-> f.err, fetched |-> 1]
        ELSE [nextURL |-> IF url = nextURL THEN f.resp.Next ELSE nextURL,
              prevURL |-> IF url = nextURL THEN prevURL ELSE f.resp.Previous,
              results |-> f.resp.Results, err |-> Nil, fetched |-> 1]

\* Paginator.Next and Paginator.Previous, from the URL they follow: the
\* paginator afterwards, what is returned, and the fetches made.
Follow(has, url, fails) ==
    LET f == fetcher(extractCursor(url), fails)
    IN  IF ~has
          THEN [nextURL |-> nextURL, prevURL |-> prevURL, results |-> << >>,
                err |-> Nil, fetched |-> 0]
        ELSE IF f.err # Nil
          THEN [nextURL |-> nextURL, prevURL |-> prevURL, results |-> << >>,
                err |-> f.err, fetched |-> 1]
        ELSE [nextURL |-> f.resp.Next, prevURL |-> f.resp.Previous,
              results |-> f.resp.Results, err |-> Nil, fetched |-> 1]

NoRun == [pc |-> "idle", all |-> << >>, fetched |-> 0, fresh |-> FALSE]

NoCall ==
    [op |-> "none", results |-> << >>, err |-> Nil, fetched |-> 0, fresh |-> FALSE]

Returned(op, results, err, fetched, fresh) ==
    [op |-> op, results |-> results, err |-> err, fetched |-> fetched,
     fresh |-> fresh]

\* No call has been made on the paginator since it was made.
Untouched == last.op = "none"

\* The cursors passed to the fetcher, after a call that went forward.
Asked(n) ==
    IF n.fetched = 0 THEN asked
    ELSE Append(asked, [cursor |-> extractCursor(nextURL), failed |-> n.err # Nil])

\* Paginator.Next(ctx)
Next_(fails) ==
    /\ run.pc = "idle"
    /\ LET n == Follow(HasNext(nextURL), nextURL, fails)
       IN  /\ fetches + n.fetched <= MaxFetches
           /\ nextURL' = n.nextURL
           /\ prevURL' = n.prevURL
           /\ fetches' = fetches + n.fetched
           /\ asked' = Asked(n)
           /\ last' = Returned("Next", n.results, n.err, n.fetched, Untouched)
    /\ UNCHANGED <<pages, made, run, besidePager>>

\* Paginator.Previous(ctx)
Previous(fails) ==
    /\ run.pc = "idle"
    /\ LET n == Follow(HasPrevious(prevURL), prevURL, fails)
       IN  /\ fetches + n.fetched <= MaxFetches
           /\ nextURL' = n.nextURL
           /\ prevURL' = n.prevURL
           /\ fetches' = fetches + n.fetched
           /\ asked' = IF n.fetched = 0 THEN asked ELSE << >>
           /\ last' = Returned("Previous", n.results, n.err, n.fetched, Untouched)
    /\ UNCHANGED <<pages, made, run, besidePager>>

\* One p.Next(ctx) of a GetAllPages that returns, with the error, the results
\* it has collected.
GetAllPagesNextPartial(all, fetched, fresh, fails) ==
    LET n == Follow(HasNext(nextURL), nextURL, fails)
    IN  /\ fetches + n.fetched <= MaxFetches
        /\ nextURL' = n.nextURL
        /\ prevURL' = n.prevURL
        /\ fetches' = fetches + n.fetched
        /\ asked' = Asked(n)
        /\ IF n.err # Nil
             THEN /\ run' = NoRun
                  /\ last' = Returned("GetAllPages", all, n.err,
                                      fetched + n.fetched, fresh)
             ELSE /\ run' = [pc |-> "loop", all |-> all \o n.results,
                             fetched |-> fetched + n.fetched, fresh |-> fresh]
                  /\ UNCHANGED last

\* One p.Next(ctx) of GetAllPages: the error is returned, or the results are
\* appended and the loop is next.
GetAllPagesNext(all, fetched, fresh, fails) ==
    LET n == Follow(HasNext(nextURL), nextURL, fails)
    IN  /\ fetches + n.fetched <= MaxFetches
        /\ nextURL' = n.nextURL
        /\ prevURL' = n.prevURL
        /\ fetches' = fetches + n.fetched
        /\ asked' = Asked(n)
        /\ IF n.err # Nil
             THEN /\ run' = NoRun
                  /\ last' = Returned("GetAllPages", << >>, n.err,
                                      fetched + n.fetched, fresh)
             ELSE /\ run' = [pc |-> "loop", all |-> all \o n.results,
                             fetched |-> fetched + n.fetched, fresh |-> fresh]
                  /\ UNCHANGED last

\* Paginator.GetAllPages(ctx), up to its loop
GetAllPages(fails) ==
    /\ run.pc = "idle"
    /\ IF nextURL # EmptyURL
         THEN GetAllPagesNext(<< >>, 0, Untouched, fails)
         ELSE /\ run' = [pc |-> "loop", all |-> << >>, fetched |-> 0,
                         fresh |-> Untouched]
              /\ UNCHANGED <<nextURL, prevURL, fetches, asked, last>>
    /\ UNCHANGED <<pages, made, besidePager>>

\* Paginator.GetAllPages(ctx): one turn of the loop, or the return
GetAllPagesLoop(fails) ==
    /\ run.pc = "loop"
    /\ IF HasNext(nextURL)
         THEN GetAllPagesNext(run.all, run.fetched, run.fresh, fails)
         ELSE /\ run' = NoRun
              /\ last' = Returned("GetAllPages", run.all, Nil, run.fetched,
                                  run.fresh)
              /\ UNCHANGED <<nextURL, prevURL, fetches, asked>>
    /\ UNCHANGED <<pages, made, besidePager>>

\* No paginator: the state of the variables above beside a call or a bucket.
InitNoPager ==
    /\ nextURL = EmptyURL
    /\ prevURL = EmptyURL
    /\ pages = << >>
    /\ made = "constructor"
    /\ run = NoRun
    /\ last = NoCall
    /\ fetches = 0
    /\ asked = << >>

---------------------------------------------------------------------------
(* The constructors, called with credentials of every kind *)

\* The byte strings encoded: of a key's size and near it.
KeyBytes ==
    {[i \in 1..n |-> v] :
        n \in (PrivateKeySize - MaxKeySlack)..(PrivateKeySize + MaxKeySlack),
        v \in {0, 105, 255}}

\* What is done to the encoded text before it is passed.
Damages == {"none", "line break", "stray character", "cut short", "padding first"}

KeyText(bytes, damage) ==
    LET text == EncodeToString(bytes)
    IN  CASE damage = "none" -> text
          [] damage = "line break" ->
               SubSeq(text, 1, 4) \o <<LineBreak>> \o SubSeq(text, 5, Len(text))
          [] damage = "stray character" -> <<StrayChar>> \o Tail(text)
          [] damage = "cut short" -> SubSeq(text, 1, Len(text) - 1)
          [] damage = "padding first" -> <<PadChar>> \o text

\* The API keys: the empty one and another.
APIKeys == {<< >>, apiKey}

NoCredentials ==
    [apiKey |-> << >>, bytes |-> << >>, damage |-> "none", text |-> << >>]

NotConstructed ==
    [by |-> "none", auth |-> NilAuthenticator, client |-> NilClient, err |-> Nil]

NotSigned ==
    [called |-> FALSE, method |-> << >>, path |-> << >>, body |-> << >>,
     timestamp |-> 0, headers |-> GetAuthHeaders(<< >>, << >>, << >>, 0)]

NoFirstRun == [allowed |-> 0, denied |-> FALSE]

---------------------------------------------------------------------------
(* client.TradingService.PlaceOrder.  Of the four order configurations of  *)
(* a request, Config is the one its Type names; nil is no configuration.   *)

NilConfig ==
    [nil |-> TRUE, AssetQuantity |-> 0, QuoteAmount |-> 0, LimitPrice |-> 0,
     StopPrice |-> 0, TimeInForce |-> << >>]

gtc == <<"g", "t", "c">>

Configs ==
    {NilConfig} \cup
    [nil : {FALSE}, AssetQuantity : {0, 1}, QuoteAmount : {0, 1},
     LimitPrice : {0, 1}, StopPrice : {0, 1}, TimeInForce : {<< >>, gtc}]

\* strings.ToUpper
ToUpper(str) ==
    [i \in 1..Len(str) |->
        IF \E k \in 27..52 : Alphabet[k] = str[i]
          THEN Alphabet[(CHOOSE k \in 27..52 : Alphabet[k] = str[i]) - 26]
          ELSE str[i]]

OneOfQuantities(cfg) ==
    IF cfg.AssetQuantity = 0 /\ cfg.QuoteAmount = 0
      THEN Errorf("either asset_quantity or quote_amount must be specified", Nil)
    ELSE IF cfg.AssetQuantity # 0 /\ cfg.QuoteAmount # 0
      THEN Errorf("only one of asset_quantity or quote_amount can be specified", Nil)
    ELSE Nil

\* The checks of validateOrderRequest other than that of the client order id.
validateAnyClientOrderID(request) ==
    IF request.Symbol = << >> THEN Errorf("symbol is required", Nil)
    ELSE IF request.Side \notin {"buy", "sell"} THEN Errorf("invalid side", Nil)
    ELSE IF request.Type \notin {"market", "limit", "stop_loss", "stop_limit"}
      THEN Errorf("invalid order type", Nil)
    ELSE IF request.Config.nil THEN Errorf("order config is required", Nil)
    ELSE IF request.Type \in {"stop_loss", "stop_limit"} /\ request.Config.StopPrice <= 0
      THEN Errorf("stop_price must be greater than 0", Nil)
    ELSE IF request.Type \in {"limit", "stop_limit"} /\ request.Config.LimitPrice <= 0
      THEN Errorf("limit_price must be greater than 0", Nil)
    ELSE OneOfQuantities(request.Config)

\* TradingService.validateOrderRequest(req): the error
validateOrderRequest(request) ==
    IF request.Symbol = << >> THEN Errorf("symbol is required", Nil)
    ELSE IF request.ClientOrderID = << >>
      THEN Errorf("client_order_id is required", Nil)
    ELSE IF request.Side \notin {"buy", "sell"} THEN Errorf("invalid side", Nil)
    ELSE IF request.Type \notin {"market", "limit", "stop_loss", "stop_limit"}
      THEN Errorf("invalid order type", Nil)
    ELSE IF request.Config.nil THEN Errorf("order config is required", Nil)
    ELSE IF request.Type \in {"stop_loss", "stop_limit"} /\ request.Config.StopPrice <= 0
      THEN Errorf("stop_price must be greater than 0", Nil)
    ELSE IF request.Type \in {"limit", "stop_limit"} /\ request.Config.LimitPrice <= 0
      THEN Errorf("limit_price must be greater than 0", Nil)
    ELSE OneOfQuantities(request.Config)

\* The request as validateOrderRequest and PlaceOrder leave it: the time in
\* force defaulted for the orders that have one, the symbol in upper case.
Normalised(request) ==
    [request EXCEPT
        !.Symbol = ToUpper(@),
        !.Config.TimeInForce =
            IF request.Type # "market" /\ @ = << >> THEN gtc ELSE @]

\* The body PlaceOrder passes to Client.do
PlaceOrderBody(request) ==
    [symbol |-> request.Symbol, client_order_id |-> request.ClientOrderID,
     side |-> request.Side, type |-> request.Type, config |-> request.Config]

NoOrderRequest ==
    [Symbol |-> << >>, ClientOrderID |-> << >>, Side |-> "", Type |-> "",
     Config |-> NilConfig]

NotPlaced ==
    [called |-> FALSE, req |-> NoOrderRequest, dispatched |-> FALSE,
     body |-> PlaceOrderBody(NoOrderRequest), order |-> FALSE, err |-> Nil]

OrderRequests ==
    [Symbol : {<< >>, <<"b", "t", "c">>, <<"B", "T", "C">>},
     ClientOrderID : {<< >>, <<"i", "d">>},
     Side : {"buy", "sell", "hold"},
     Type : {"market", "limit", "stop_loss", "stop_limit", "other"},
     Config : Configs]

\* TradingService.PlaceOrder(ctx, req); doErr is what Client.do returns when
\* it is called.  A call does not depend on the calls before it: one call
\* is followed from each request.
PlaceOrder(request, doErr) ==
    LET err == validateOrderRequest(request)
    IN  /\ ~placed.called
        /\ placed' =
             IF err # Nil
               THEN [called |-> TRUE, req |-> request, dispatched |-> FALSE,
                     body |-> PlaceOrderBody(NoOrderRequest), order |-> FALSE,
                     err |-> err]
               ELSE [called |-> TRUE, req |-> request, dispatched |-> TRUE,
                     body |-> PlaceOrderBody(Normalised(request)),
                     order |-> doErr = Nil, err |-> doErr]
        /\ UNCHANGED besideOrder

InitUnbuilt ==
    /\ newArgs = NoCredentials
    /\ newRet = NotConstructed
    /\ signed = NotSigned
    /\ firstRun = NoFirstRun
    /\ placed = NotPlaced

\* No mutex is held (0 is no goroutine), no goroutine is followed and no
\* operation was begun.
NoLocks == [mu |-> 0, lim |-> 0, begun |-> 0]

InitNoLocks ==
    /\ ops = << >>
    /\ held = NoLocks

\* No server is followed.
NoServer == [remaining |-> 0, refused |-> FALSE]

InitNoServer == server = NoServer

\* No call runs beside the one followed.
InitNoNew ==
    /\ calls = << >>
    /\ InitNoLocks
    /\ InitNoServer
    /\ InitUnbuilt

\* A call of auth.NewAuthenticator
NewAuthenticatorCall(key, bytes, damage) ==
    LET text == KeyText(bytes, damage)
        ret == NewAuthenticator(key, text)
    IN  /\ newArgs' = [apiKey |-> key, bytes |-> bytes, damage |-> damage,
                       text |-> text]
        /\ newRet' = [by |-> "NewAuthenticator", auth |-> ret.auth,
                      client |-> NilClient, err |-> ret.err]
        /\ UNCHANGED <<signed, besideNew>>

\* A call of client.New
New(key, bytes, damage) ==
    LET text == KeyText(bytes, damage)
        ret == NewClient(key, text)
    IN  /\ newArgs' = [apiKey |-> key, bytes |-> bytes, damage |-> damage,
                       text |-> text]
        /\ newRet' = [by |-> "New", auth |-> ret.client.auth,
                      client |-> ret.client, err |-> ret.err]
        /\ UNCHANGED <<signed, besideNew>>

\* auth.NewAuthenticator with the credentials of the documentation: the API
\* key, and as private key the text given
NewAuthenticatorDoc(text) ==
    LET ret == NewAuthenticator(DocAPIKey, text)
    IN  /\ newRet.by = "none"
        /\ newArgs' = [apiKey |-> DocAPIKey,
                       bytes |-> Base64DecodeString(text).bytes,
                       damage |-> "none", text |-> text]
        /\ newRet' = [by |-> "NewAuthenticator", auth |-> ret.auth,
                      client |-> NilClient, err |-> ret.err]
        /\ UNCHANGED <<signed, besideNew>>

DELETE == <<"D", "E", "L", "E", "T", "E">>

AccountsPath ==
    <<"/", "a", "p", "i", "/", "v", "1", "/", "c", "r", "y", "p", "t", "o", "/",
      "t", "r", "a", "d", "i", "n", "g", "/", "a", "c", "c", "o", "u", "n", "t",
      "s", "/">>

CancelPath == DocPath \o <<"1", "2", "3", "/", "c", "a", "n", "c", "e", "l", "/">>

\* What the clock reads when GetAuthHeaders is called.
ClockReads == {DocTimestamp + d : d \in 0..MaxClockReads}

\* A call of GetAuthHeaders on the authenticator constructed
GetAuthHeadersCall(method, path, body, timestamp) ==
    /\ ~newRet.auth.nil
    /\ signed' = [called |-> TRUE, method |-> method, path |-> path,
                  body |-> body, timestamp |-> timestamp,
                  headers |-> GetAuthHeadersOf(newRet.auth, method, path, body,
                                              timestamp)]
    /\ UNCHANGED <<newArgs, newRet, besideNew>>

\* The callers of a shared bucket, before they call.
IdleWaiter ==
    [pc |-> "idle", ctx |-> "live", deadline |-> NoTimer, burst |-> 0, limit |-> 0,
     resv |-> NoResv, ret |-> Nil]

NoHolder == [pc |-> "none", r |-> NoResv, clean |-> FALSE, was |-> NoTimer]

InitCallers ==
    /\ waiter = IdleWaiter
    /\ holder = NoHolder
    /\ promised = FALSE
    /\ grants = 0
    /\ grantCap = 0
    /\ reconfigs = 0

\* Nothing is watched: no Wait beside its shadow, no refill, no window.
InitNoWatch ==
    /\ shadow = NewLimiter(0, 0)
    /\ idle = [since |-> 0, tokens |-> 0]
    /\ win = [from |-> 0, admitted |-> 0]

Init ==
    /\ now = 0
    /\ rl \in ClientLimiters
    /\ InitCall
    /\ InitBucketVars
    /\ InitCallers
    /\ InitNoWatch
    /\ InitNoPager
    /\ InitNoNew

Next ==
    \/ \E i \in Inputs : Request(i)
    \/ LoopHead
    \/ BackoffTimer
    \/ BackoffCtx
    \/ WaitEnter
    \/ WaitTimer
    \/ WaitCtx
    \/ BuildRequest
    \/ Do
    \/ \E k \in 0..(Len(bodyStr) - readerPos) : TransportFailure(k)
    \/ \E k \in 0..(Len(bodyStr) - readerPos) : InflightCtx(k)
    \/ \E status \in Statuses, k \in 0..(Len(bodyStr) - readerPos) :
          Response(status, k)
    \/ \E readOK \in BOOLEAN, body \in RespBodies : DoReturn(readOK, body)
    \/ Cancel
    \/ Tick

Spec == Init /\ [][Next]_vars

---------------------------------------------------------------------------
(* ratelimit.RateLimiter on its own: the callers of a bucket *)

\* The row of Allow calls that returned true ends.
EndRun ==
    /\ allowRun' = 0
    /\ runCap' = 0
    /\ runAfterCut' = FALSE

\* RateLimiter.Allow()
Allow ==
    /\ allowRun <= MaxCapacity
    /\ LET rr == AllowN(rl.limiter, now, 1)
       IN  /\ rl' = [rl EXCEPT !.limiter = rr.lim]
           /\ IF rr.r.ok
                THEN /\ allowRun' = allowRun + 1
                     /\ runCap' = IF allowRun = 0 THEN rl.limiter.burst ELSE runCap
                     /\ runAfterCut' =
                          IF allowRun = 0
                            THEN /\ rl.limiter.tokens > rl.limiter.burst * TokenScale
                                 /\ rl.limiter.last < now
                            ELSE runAfterCut
                ELSE EndRun
    /\ UNCHANGED <<now, burstSet, besideBucket>>

\* RateLimiter.Reserve(); the caller acts when the reservation says.
Reserve ==
    /\ LET rr == ReserveN(rl.limiter, now, 1)
       IN  /\ rr.r.ok => rr.r.timeToAct <= MaxBucketTime
           /\ rl' = [rl EXCEPT !.limiter = rr.lim]
    /\ EndRun
    /\ UNCHANGED <<now, burstSet, besideBucket>>

\* A SetBurst that updates the configuration and forgets the limiter.
SetBurstConfigOnly(burst) ==
    /\ rl' = [rl EXCEPT !.maxCapacity = burst]
    /\ burstSet' = TRUE
    /\ EndRun
    /\ UNCHANGED <<now, besideBucket>>

\* RateLimiter.SetBurst(burst)
SetBurst(burst) ==
    /\ rl' = [rl EXCEPT !.limiter = SetBurstAt(rl.limiter, now, burst),
                        !.maxCapacity = burst]
    /\ burstSet' = TRUE
    /\ EndRun
    /\ UNCHANGED <<now, besideBucket>>

\* RateLimiter.SetLimit(tokensPerSecond)
SetLimit(tokensPerSecond) ==
    /\ rl' = [rl EXCEPT !.limiter = SetLimitAt(rl.limiter, now, tokensPerSecond)]
    /\ EndRun
    /\ UNCHANGED <<now, burstSet, besideBucket>>

\* Time passes.
Elapse ==
    /\ now < MaxBucketTime
    /\ now' = now + 1
    /\ EndRun
    /\ UNCHANGED <<rl, burstSet, besideBucket>>

\* The buckets NewRateLimiter builds.
Buckets ==
    {NewRateLimiter(c, a, i) :
        c \in 1..MaxCapacity, a \in 1..MaxRefillAmount, i \in 1..MaxRefillInterval}

InitBucket ==
    /\ now = 0
    /\ rl \in Buckets
    /\ InitCall
    /\ InitBucketVars
    /\ InitCallers
    /\ InitNoWatch
    /\ InitNoPager
    /\ InitNoNew

NextBucket ==
    \/ Allow
    \/ Reserve
    \/ \E burst \in 0..MaxCapacity : SetBurst(burst)
    \/ \E tokensPerSecond \in Limits : SetLimit(tokensPerSecond)
    \/ Elapse

SpecBucket == InitBucket /\ [][NextBucket]_vars

---------------------------------------------------------------------------
(* ratelimit.RateLimiter shared by concurrent callers: one that calls Allow, *)
(* one that calls Wait, one that calls Reserve and may cancel, and one that  *)
(* reconfigures.  A step is one critical section of rate.Limiter.            *)

\* The count the limiter has stored, not brought up to the time of the call.
TokensStored(l, t) == l.tokens

\* RateLimiter.Tokens()
Tokens(l, t) == advance(l, t)

\* The row of admissions without delay ends.
EndGrants ==
    /\ grants' = 0
    /\ grantCap' = 0

\* One more admission without delay.
Granted ==
    /\ grants' = grants + 1
    /\ grantCap' = IF grants = 0 THEN rl.limiter.burst ELSE grantCap

\* The holder's reservation is no longer the last thing done to the bucket.
Touched == [holder EXCEPT !.clean = FALSE]

\* RateLimiter.Allow() by a caller of the shared bucket
CallerAllow ==
    /\ grants <= MaxCapacity
    /\ LET rr == AllowN(rl.limiter, now, 1)
       IN  /\ rl' = [rl EXCEPT !.limiter = rr.lim]
           /\ IF rr.r.ok
                THEN Granted /\ holder' = Touched
                ELSE UNCHANGED <<grants, grantCap, holder>>
    /\ UNCHANGED <<now, waiter, promised, reconfigs, besideCallers>>

\* RateLimiter.Wait(ctx) is called: rate.Limiter.Wait reads burst and limit.
WaitCall(c) ==
    /\ waiter.pc = "idle"
    /\ waiter' = [pc |-> "called", ctx |-> c, deadline |-> NoTimer,
                  burst |-> rl.limiter.burst, limit |-> rl.limiter.limit,
                  resv |-> NoResv, ret |-> Nil]
    /\ UNCHANGED <<now, rl, holder, promised, grants, grantCap, reconfigs, besideCallers>>

\* A Wait that never looks at its context.
ctxNeverSeen(w) == FALSE

\* rate.Limiter.Wait: select on ctx.Done() before it reserves.
ctxSeenDone(w) == w.ctx # "live"

\* ctx.Err() of a context that is done: its deadline is kept only while it
\* is what ends the context.
ErrOf(w) == IF w.deadline # NoTimer THEN DeadlineExceeded ELSE CtxErr

\* A Wait that takes a token only when one is there.
WaitLimitNone(w, t) == 0

\* rate.Limiter.Wait: waitLimit, from ctx.Deadline()
WaitLimit(w, t) == IF w.deadline = NoTimer THEN InfDuration ELSE w.deadline - t

WaitReturns(err) ==
    [IdleWaiter EXCEPT !.ctx = IF waiter.ctx = "live" THEN "live" ELSE "done",
                       !.deadline = waiter.deadline,
                       !.ret = err]

\* rate.Limiter.Wait goes on: the burst it read, the context, the reservation.
WaitReserve ==
    /\ waiter.pc = "called"
    /\ grants <= MaxCapacity
    /\ LET rr == reserveN(rl.limiter, now, 1, WaitLimit(waiter, now))
       IN  IF 1 > waiter.burst /\ waiter.limit # Inf
             THEN /\ waiter' = WaitReturns(Errorf("exceeds limiter's burst", Nil))
                  /\ UNCHANGED <<rl, holder, promised, grants, grantCap>>
           ELSE IF ctxSeenDone(waiter)
             THEN /\ waiter' = WaitReturns(ErrOf(waiter))
                  /\ UNCHANGED <<rl, holder, promised, grants, grantCap>>
           ELSE IF ~rr.r.ok
             THEN /\ waiter' = WaitReturns(Errorf("would exceed context deadline", Nil))
                  /\ UNCHANGED <<rl, holder, promised, grants, grantCap>>
           ELSE /\ rr.r.timeToAct <= MaxBucketTime
                /\ rl' = [rl EXCEPT !.limiter = rr.lim]
                /\ holder' = Touched
                /\ IF DelayFrom(rr.r, now) = 0
                     THEN /\ waiter' = WaitReturns(Nil)
                          /\ Granted
                          /\ UNCHANGED promised
                     ELSE /\ waiter' = [waiter EXCEPT !.pc = "sleeping", !.resv = rr.r]
                          /\ promised' = TRUE
                          /\ UNCHANGED <<grants, grantCap>>
    /\ UNCHANGED <<now, reconfigs, besideCallers>>

\* rate.Limiter.Wait: the timer fired first.
WaitWakes ==
    /\ waiter.pc = "sleeping"
    /\ now >= waiter.resv.timeToAct
    /\ waiter.ctx # "done first"
    /\ waiter' = WaitReturns(Nil)
    /\ UNCHANGED <<now, rl, holder, promised, grants, grantCap, reconfigs, besideCallers>>

\* rate.Limiter.Wait: the context was done first; the reservation is cancelled.
WaitCancelled ==
    /\ waiter.pc = "sleeping"
    /\ waiter.ctx \in {"done first", "done tie"}
    /\ rl' = [rl EXCEPT !.limiter = CancelAt(rl.limiter, waiter.resv, now)]
    /\ waiter' = WaitReturns(ErrOf(waiter))
    /\ holder' = Touched
    /\ EndGrants
    /\ UNCHANGED <<now, promised, reconfigs, besideCallers>>

\* The caller of Wait cancels its context during the call.
CtxCancel ==
    /\ waiter.pc \in {"called", "sleeping"}
    /\ waiter.ctx = "live"
    /\ waiter' = [waiter EXCEPT !.deadline = NoTimer,
                                !.ctx =
                    IF waiter.pc = "sleeping" /\ now < waiter.resv.timeToAct
                      THEN "done first"
                    ELSE IF waiter.pc = "sleeping" /\ now = waiter.resv.timeToAct
                      THEN "done tie"
                    ELSE "done"]
    /\ UNCHANGED <<now, rl, holder, promised, grants, grantCap, reconfigs, besideCallers>>

\* RateLimiter.Reserve() by the holder, who keeps the reservation.
HolderReserve ==
    /\ holder.pc = "none"
    /\ grants <= MaxCapacity
    /\ LET rr == ReserveN(rl.limiter, now, 1)
       IN  /\ rr.r.ok => rr.r.timeToAct <= MaxBucketTime
           /\ rl' = [rl EXCEPT !.limiter = rr.lim]
           /\ holder' = [pc |-> "holding", r |-> rr.r, clean |-> TRUE, was |-> NoTimer]
           /\ IF rr.r.ok /\ DelayFrom(rr.r, now) = 0
                THEN Granted /\ UNCHANGED promised
                ELSE /\ promised' = (promised \/ rr.r.ok)
                     /\ UNCHANGED <<grants, grantCap>>
    /\ UNCHANGED <<now, waiter, reconfigs, besideCallers>>

\* Reservation.Cancel() by the holder
HolderCancel ==
    /\ holder.pc \in {"holding", "held again"}
    /\ rl' = [rl EXCEPT !.limiter = CancelAt(rl.limiter, holder.r, now)]
    /\ holder' = NoHolder
    /\ EndGrants
    /\ UNCHANGED <<now, waiter, promised, reconfigs, besideCallers>>

\* Reservation.Cancel() by the holder and, at once, RateLimiter.Reserve() again
HolderCancelReserve ==
    /\ holder.pc = "holding"
    /\ LET l == CancelAt(rl.limiter, holder.r, now)
           rr == ReserveN(l, now, 1)
       IN  /\ rr.r.ok => rr.r.timeToAct <= MaxBucketTime
           /\ rl' = [rl EXCEPT !.limiter = rr.lim]
           /\ holder' = [pc |-> "held again", r |-> rr.r, clean |-> TRUE,
                         was |-> IF holder.r.ok /\ holder.clean /\ now < holder.r.timeToAct
                                   THEN holder.r.timeToAct ELSE NoTimer]
           /\ promised' = (promised \/ (rr.r.ok /\ DelayFrom(rr.r, now) > 0))
    /\ EndGrants
    /\ UNCHANGED <<now, waiter, reconfigs, besideCallers>>

\* The holder acts on its reservation, or lets it go.
HolderDone ==
    /\ holder.pc \in {"holding", "held again"}
    /\ holder' = NoHolder
    /\ UNCHANGED <<now, rl, waiter, promised, grants, grantCap, reconfigs, besideCallers>>

\* RateLimiter.SetBurst(burst) on the shared bucket
CallerSetBurst(burst) ==
    /\ reconfigs < MaxReconfigs
    /\ reconfigs' = reconfigs + 1
    /\ rl' = [rl EXCEPT !.limiter = SetBurstAt(rl.limiter, now, burst),
                        !.maxCapacity = burst]
    /\ holder' = Touched
    /\ EndGrants
    /\ UNCHANGED <<now, waiter, promised, besideCallers>>

\* RateLimiter.SetLimit(tokensPerSecond) on the shared bucket
CallerSetLimit(tokensPerSecond) ==
    /\ reconfigs < MaxReconfigs
    /\ reconfigs' = reconfigs + 1
    /\ rl' = [rl EXCEPT !.limiter = SetLimitAt(rl.limiter, now, tokensPerSecond)]
    /\ holder' = Touched
    /\ EndGrants
    /\ UNCHANGED <<now, waiter, promised, besideCallers>>

\* Time passes for the callers.
CallerElapse ==
    /\ now < MaxBucketTime
    /\ now' = now + 1
    /\ EndGrants
    /\ UNCHANGED <<rl, waiter, holder, promised, reconfigs, besideCallers>>

NextCallers ==
    \/ CallerAllow
    \/ \E c \in {"live", "done"} : WaitCall(c)
    \/ WaitReserve
    \/ WaitWakes
    \/ WaitCancelled
    \/ CtxCancel
    \/ HolderReserve
    \/ HolderCancel
    \/ HolderCancelReserve
    \/ HolderDone
    \/ \E burst \in 0..MaxCapacity : CallerSetBurst(burst)
    \/ \E tokensPerSecond \in Limits : CallerSetLimit(tokensPerSecond)
    \/ CallerElapse

SpecCallers == InitBucket /\ [][NextCallers]_vars

---------------------------------------------------------------------------
(* A Wait whose context may carry a deadline, on a bucket that other        *)
(* callers take from and reconfigure.                                       *)

\* RateLimiter.Wait(ctx) is called with a context whose deadline is d.
WaitCallUntil(d) ==
    /\ waiter.pc = "idle"
    /\ d > now
    /\ waiter' = [pc |-> "called", ctx |-> "live", deadline |-> d,
                  burst |-> rl.limiter.burst, limit |-> rl.limiter.limit,
                  resv |-> NoResv, ret |-> Nil]
    /\ UNCHANGED <<now, rl, holder, promised, grants, grantCap, reconfigs, besideCallers>>

\* The deadline of the context of a Wait under way is reached, and the
\* context is not done yet.
DeadlineDue ==
    /\ waiter.pc \in {"called", "sleeping"}
    /\ waiter.ctx = "live"
    /\ waiter.deadline # NoTimer
    /\ now >= waiter.deadline

\* The context is done at its deadline.
DeadlineFires ==
    /\ DeadlineDue
    /\ waiter' = [waiter EXCEPT !.ctx =
                    IF waiter.pc = "sleeping" /\ now < waiter.resv.timeToAct
                      THEN "done first"
                    ELSE IF waiter.pc = "sleeping" /\ now = waiter.resv.timeToAct
                      THEN "done tie"
                    ELSE "done"]
    /\ UNCHANGED <<now, rl, holder, promised, grants, grantCap, reconfigs, besideCallers>>

\* Time passes; no deadline is passed with its context not done.
DeadlineElapse ==
    /\ ~DeadlineDue
    /\ CallerElapse

NextDeadline ==
    \/ CallerAllow
    \/ \E c \in {"live", "done"} : WaitCall(c)
    \/ \E d \in 1..MaxBucketTime : WaitCallUntil(d)
    \/ WaitReserve
    \/ WaitWakes
    \/ WaitCancelled
    \/ CtxCancel
    \/ DeadlineFires
    \/ \E burst \in 0..MaxCapacity : CallerSetBurst(burst)
    \/ \E tokensPerSecond \in Limits : CallerSetLimit(tokensPerSecond)
    \/ DeadlineElapse

SpecDeadline == InitBucket /\ [][NextDeadline]_vars

---------------------------------------------------------------------------
(* A Wait with a context that is never done, on a bucket of a finite rate   *)
(* that other callers take from with Allow and Reserve.  Time ends at       *)
(* MaxBucketTime: a step is left out when after it the token of a Wait that *)
(* has been called would be due later than that.                            *)

InHorizon ==
    waiter.pc = "called"
      => reserveN(rl.limiter, now, 1, InfDuration).r.timeToAct <= MaxBucketTime

LiveWaitCall == WaitCall("live") /\ InHorizon'

LiveAllow == CallerAllow /\ InHorizon'

LiveReserve == HolderReserve /\ InHorizon'

LiveElapse == CallerElapse /\ InHorizon'

InitLive ==
    /\ InitBucket
    /\ rl.limiter.limit # Inf

NextLive ==
    \/ LiveWaitCall
    \/ WaitReserve
    \/ WaitWakes
    \/ LiveAllow
    \/ LiveReserve
    \/ HolderDone
    \/ LiveElapse

SpecLiveSteps == InitLive /\ [][NextLive]_vars

\* The goroutine in Wait runs on, its timer fires, and time passes.
SpecLive ==
    /\ SpecLiveSteps
    /\ WF_vars(WaitReserve)
    /\ WF_vars(WaitWakes)
    /\ WF_vars(LiveElapse)

---------------------------------------------------------------------------
(* The two mutexes.  RateLimiter.mu is taken by SetBurst and SetLimit;      *)
(* rate.Limiter.mu is taken inside every method of the limiter and given    *)
(* back before the method returns.  Goroutine 1 calls Wait, the others call *)
(* Allow, Tokens, Reserve, SetBurst and SetLimit.  A step is the taking of  *)
(* a mutex, or what is done under it up to its Unlock.                       *)

Waiter == 1

Others == 2..Goroutines

Threads == {Waiter} \cup Others

IdleOp ==
    [op |-> "none", pc |-> "idle", arg |-> 0, ctx |-> "live", burst |-> 0,
     limit |-> 0, resv |-> NoResv, ret |-> Nil]

\* Where a goroutine stands before lim.mu.Lock(), and where it is after it.
LimLockPcs == {"lockLim", "lockReserve", "lockCancel"}

UnderLim(p) ==
    IF p = "lockLim" THEN "locked"
    ELSE IF p = "lockReserve" THEN "reserving" ELSE "cancelling"

\* The method returns.
OpReturns(o, err) == [IdleOp EXCEPT !.ret = err]

\* A Wait that returns with rate.Limiter.mu still locked.
WaitKeepsLock(h) == h

\* rate.Limiter.reserveN, called by Wait: defer lim.mu.Unlock()
WaitUnlock(h) == [h EXCEPT !.lim = 0]

\* A goroutine calls a method of the RateLimiter.
Begin(t, op, arg) ==
    /\ ops[t].pc = "idle"
    /\ held.begun < MaxOps
    /\ held' = [held EXCEPT !.begun = @ + 1]
    /\ ops' = [ops EXCEPT ![t] =
         [IdleOp EXCEPT !.op = op,
                        !.pc = IF op \in {"SetBurst", "SetLimit"}
                                 THEN "lockMu" ELSE "lockLim",
                        !.arg = IF op = "Wait" THEN 0 ELSE arg,
                        !.ctx = IF op = "Wait" THEN arg ELSE "live"]]
    /\ UNCHANGED <<now, rl, besideLocks>>

\* r.mu.Lock()
LockMu(t) ==
    /\ ops[t].pc = "lockMu"
    /\ held.mu = 0
    /\ held' = [held EXCEPT !.mu = t]
    /\ ops' = [ops EXCEPT ![t].pc = "lockLim"]
    /\ UNCHANGED <<now, rl, besideLocks>>

\* lim.mu.Lock()
LockLim(t) ==
    /\ ops[t].pc \in LimLockPcs
    /\ held.lim = 0
    /\ held' = [held EXCEPT !.lim = t]
    /\ ops' = [ops EXCEPT ![t].pc = UnderLim(ops[t].pc)]
    /\ UNCHANGED <<now, rl, besideLocks>>

\* RateLimiter.Allow, Reserve and Tokens under lim.mu, up to the return
TakeBody(t) ==
    /\ ops[t].pc = "locked"
    /\ ops[t].op \in {"Allow", "Reserve", "Tokens"}
    /\ rl' = [rl EXCEPT !.limiter =
                 IF ops[t].op = "Allow" THEN AllowN(rl.limiter, now, 1).lim
                 ELSE IF ops[t].op = "Reserve" THEN ReserveN(rl.limiter, now, 1).lim
                 ELSE rl.limiter]
    /\ held' = [held EXCEPT !.lim = 0]
    /\ ops' = [ops EXCEPT ![t] = OpReturns(ops[t], Nil)]
    /\ UNCHANGED <<now, besideLocks>>

\* rate.Limiter.SetBurst and SetLimit under lim.mu
SetBody(t) ==
    /\ ops[t].pc = "locked"
    /\ ops[t].op \in {"SetBurst", "SetLimit"}
    /\ rl' = [rl EXCEPT !.limiter =
                 IF ops[t].op = "SetBurst"
                   THEN SetBurstAt(rl.limiter, now, ops[t].arg)
                   ELSE SetLimitAt(rl.limiter, now, ops[t].arg)]
    /\ held' = [held EXCEPT !.lim = 0]
    /\ ops' = [ops EXCEPT ![t].pc = "unlockMu"]
    /\ UNCHANGED <<now, besideLocks>>

\* RateLimiter.SetBurst: r.maxCapacity = burst; then the deferred
\* r.mu.Unlock() of SetBurst and of SetLimit
UnlockMu(t) ==
    /\ ops[t].pc = "unlockMu"
    /\ rl' = IF ops[t].op = "SetBurst"
               THEN [rl EXCEPT !.maxCapacity = ops[t].arg] ELSE rl
    /\ held' = [held EXCEPT !.mu = 0]
    /\ ops' = [ops EXCEPT ![t] = OpReturns(ops[t], Nil)]
    /\ UNCHANGED <<now, besideLocks>>

\* rate.Limiter.Wait reads burst and limit under lim.mu, unlocks, and looks
\* at the burst and at ctx.Done().
WaitReads(t) ==
    /\ ops[t].pc = "locked"
    /\ ops[t].op = "Wait"
    /\ held' = [held EXCEPT !.lim = 0]
    /\ ops' = [ops EXCEPT ![t] =
         IF 1 > rl.limiter.burst /\ rl.limiter.limit # Inf
           THEN OpReturns(ops[t], Errorf("exceeds limiter's burst", Nil))
         ELSE IF ops[t].ctx # "live"
           THEN OpReturns(ops[t], CtxErr)
         ELSE [ops[t] EXCEPT !.pc = "lockReserve",
                             !.burst = rl.limiter.burst,
                             !.limit = rl.limiter.limit]]
    /\ UNCHANGED <<now, rl, besideLocks>>

\* rate.Limiter.Wait: reserveN under lim.mu; then Wait returns or sleeps.
WaitReserves(t) ==
    /\ ops[t].pc = "reserving"
    /\ LET rr == reserveN(rl.limiter, now, 1, InfDuration)
       IN  /\ rl' = [rl EXCEPT !.limiter = rr.lim]
           /\ ops' = [ops EXCEPT ![t] =
                IF ~rr.r.ok
                  THEN OpReturns(ops[t], Errorf("would exceed context deadline", Nil))
                ELSE IF DelayFrom(rr.r, now) = 0
                  THEN OpReturns(ops[t], Nil)
                ELSE [ops[t] EXCEPT !.pc = "sleeping", !.resv = rr.r,
                                    !.burst = 0, !.limit = 0]]
    /\ held' = WaitUnlock(held)
    /\ UNCHANGED <<now, besideLocks>>

\* rate.Limiter.Wait: case <-ch, the timer fired.
WaitSlept(t) ==
    /\ ops[t].pc = "sleeping"
    /\ now >= ops[t].resv.timeToAct
    /\ ops' = [ops EXCEPT ![t] = OpReturns(ops[t], Nil)]
    /\ UNCHANGED <<now, rl, held, besideLocks>>

\* rate.Limiter.Wait: case <-ctx.Done(), and r.Cancel() is called.
WaitSeesDone(t) ==
    /\ ops[t].pc = "sleeping"
    /\ ops[t].ctx # "live"
    /\ ops' = [ops EXCEPT ![t].pc = "lockCancel"]
    /\ UNCHANGED <<now, rl, held, besideLocks>>

\* Reservation.CancelAt under lim.mu; then Wait returns ctx.Err().
WaitCancels(t) ==
    /\ ops[t].pc = "cancelling"
    /\ rl' = [rl EXCEPT !.limiter = CancelAt(rl.limiter, ops[t].resv, now)]
    /\ held' = [held EXCEPT !.lim = 0]
    /\ ops' = [ops EXCEPT ![t] = OpReturns(ops[t], CtxErr)]
    /\ UNCHANGED <<now, besideLocks>>

\* The caller of Wait cancels its context during the call.
WaitCtxCancel(t) ==
    /\ ops[t].op = "Wait"
    /\ ops[t].pc # "idle"
    /\ ops[t].ctx = "live"
    /\ ops' = [ops EXCEPT ![t].ctx = "done"]
    /\ UNCHANGED <<now, rl, held, besideLocks>>

\* Time passes while a Wait sleeps.
LockElapse ==
    /\ now < MaxBucketTime
    /\ \E t \in Threads : ops[t].pc = "sleeping"
    /\ now' = now + 1
    /\ UNCHANGED <<rl, ops, held, besideLocks>>

RECURSIVE AllowTimes(_, _)
AllowTimes(l, k) == IF k = 0 THEN l ELSE AllowTimes(AllowN(l, 0, 1).lim, k - 1)

\* A bucket that NewRateLimiter built and that Allow has taken tokens from.
UsedBuckets ==
    {[b EXCEPT !.limiter = AllowTimes(b.limiter, k)] :
        b \in {NewRateLimiter(MaxCapacity, 1, MaxRefillInterval)},
        k \in 0..MaxCapacity}

InitLocks ==
    /\ now = 0
    /\ rl \in UsedBuckets
    /\ InitCall
    /\ InitBucketVars
    /\ InitCallers
    /\ InitNoWatch
    /\ InitNoPager
    /\ InitUnbuilt
    /\ InitNoServer
    /\ calls = << >>
    /\ ops = [t \in Threads |-> IdleOp]
    /\ held = NoLocks

NextLocks ==
    \/ \E c \in {"live", "done"} : Begin(Waiter, "Wait", c)
    \/ \E t \in Others, op \in {"Allow", "Tokens", "Reserve"} : Begin(t, op, 0)
    \/ \E t \in Others, burst \in 0..MaxCapacity : Begin(t, "SetBurst", burst)
    \/ \E t \in Others, tokensPerSecond \in Limits : Begin(t, "SetLimit", tokensPerSecond)
    \/ \E t \in Threads : LockMu(t)
    \/ \E t \in Threads : LockLim(t)
    \/ \E t \in Threads : TakeBody(t)
    \/ \E t \in Threads : SetBody(t)
    \/ \E t \in Threads : UnlockMu(t)
    \/ \E t \in Threads : WaitReads(t)
    \/ \E t \in Threads : WaitReserves(t)
    \/ \E t \in Threads : WaitSlept(t)
    \/ \E t \in Threads : WaitSeesDone(t)
    \/ \E t \in Threads : WaitCancels(t)
    \/ \E t \in Threads : WaitCtxCancel(t)
    \/ LockElapse

SpecLocks == InitLocks /\ [][NextLocks]_vars

---------------------------------------------------------------------------
(* A Wait on the shared bucket, beside the limiter that the same calls of    *)
(* the other callers would have left, had that Wait never been called.       *)

\* RateLimiter.Wait(ctx) is called with a live context.
WaitBegins ==
    /\ waiter.pc = "idle"
    /\ waiter' = [pc |-> "called", ctx |-> "live", deadline |-> NoTimer,
                  burst |-> rl.limiter.burst, limit |-> rl.limiter.limit,
                  resv |-> NoResv, ret |-> Nil]
    /\ shadow' = rl.limiter
    /\ UNCHANGED <<now, rl, holder, promised, grants, grantCap, reconfigs,
                   besideShadow>>

\* RateLimiter.Allow() by another caller
OtherAllow ==
    /\ rl' = [rl EXCEPT !.limiter = AllowN(rl.limiter, now, 1).lim]
    /\ shadow' = AllowN(shadow, now, 1).lim
    /\ UNCHANGED <<now, waiter, holder, promised, grants, grantCap, reconfigs,
                   besideShadow>>

\* RateLimiter.Reserve() by another caller, who acts on the reservation
OtherReserve ==
    /\ LET rr == ReserveN(rl.limiter, now, 1)
       IN  /\ rr.r.ok => rr.r.timeToAct <= MaxBucketTime
           /\ rl' = [rl EXCEPT !.limiter = rr.lim]
    /\ shadow' = ReserveN(shadow, now, 1).lim
    /\ UNCHANGED <<now, waiter, holder, promised, grants, grantCap, reconfigs,
                   besideShadow>>

NextWaitCancel ==
    \/ WaitBegins
    \/ WaitReserve
    \/ WaitWakes
    \/ WaitCancelled
    \/ CtxCancel
    \/ OtherAllow
    \/ OtherReserve
    \/ CallerElapse

InitWaitCancel ==
    /\ now = 0
    /\ rl \in Buckets
    /\ InitCall
    /\ InitBucketVars
    /\ InitCallers
    /\ shadow = rl.limiter
    /\ idle = [since |-> 0, tokens |-> 0]
    /\ win = [from |-> 0, admitted |-> 0]
    /\ InitNoPager
    /\ InitNoNew

SpecWaitCancel == InitWaitCancel /\ [][NextWaitCancel]_vars

---------------------------------------------------------------------------
(* A bucket beside the limiter that received the same calls but for the     *)
(* Allow calls that returned false.                                         *)

\* RateLimiter.Allow(); the limiter beside receives it when it returns true.
AllowBeside ==
    /\ firstRun.allowed <= MaxCapacity
    /\ LET rr == AllowN(rl.limiter, now, 1)
       IN  /\ rl' = [rl EXCEPT !.limiter = rr.lim]
           /\ shadow' = IF rr.r.ok THEN AllowN(shadow, now, 1).lim ELSE shadow
           /\ firstRun' = IF rr.r.ok
                            THEN [firstRun EXCEPT !.allowed = @ + 1]
                            ELSE [firstRun EXCEPT !.denied = TRUE]
    /\ UNCHANGED <<now, waiter, holder, promised, grants, grantCap, reconfigs,
                   callVars, bucketVars, refillVars, pagerVars, newVars,
                   orderVars, attemptVars, sharedVars>>

\* RateLimiter.SetBurst(burst), on both
SetBurstBeside(burst) ==
    /\ reconfigs < MaxReconfigs
    /\ reconfigs' = reconfigs + 1
    /\ rl' = [rl EXCEPT !.limiter = SetBurstAt(rl.limiter, now, burst),
                        !.maxCapacity = burst]
    /\ shadow' = SetBurstAt(shadow, now, burst)
    /\ UNCHANGED <<now, waiter, holder, promised, grants, grantCap, besideShadow>>

\* RateLimiter.SetLimit(tokensPerSecond), on both
SetLimitBeside(tokensPerSecond) ==
    /\ reconfigs < MaxReconfigs
    /\ reconfigs' = reconfigs + 1
    /\ rl' = [rl EXCEPT !.limiter = SetLimitAt(rl.limiter, now, tokensPerSecond)]
    /\ shadow' = SetLimitAt(shadow, now, tokensPerSecond)
    /\ UNCHANGED <<now, waiter, holder, promised, grants, grantCap, besideShadow>>

NextDenied ==
    \/ AllowBeside
    \/ OtherReserve
    \/ \E burst \in 0..MaxCapacity : SetBurstBeside(burst)
    \/ \E tokensPerSecond \in Limits : SetLimitBeside(tokensPerSecond)
    \/ CallerElapse

SpecDenied == InitWaitCancel /\ [][NextDenied]_vars

---------------------------------------------------------------------------
(* The client's bucket in front of the token bucket of the API               *)
(* documentation ("Rate Limiting"), both with one configuration and both     *)
(* initialized at time 0.                                                    *)

\* "This capacity is initialized at the maximum capacity"
ServerBucket(maxCapacity) == [remaining |-> maxCapacity, refused |-> FALSE]

\* "refilled using a refill amount at a timed interval called refill
\* interval until the max capacity is once again reached"
ServerRefill(s, maxCapacity, refillAmount) ==
    [s EXCEPT !.remaining = Min(maxCapacity, @ + refillAmount)]

\* The refills fall on the multiples of the refill interval.
ServerRefillDue(t, refillInterval) == t % refillInterval = 0

\* An endpoint call: one token consumed, or the call refused when none
\* remains.
ServerCall(s) ==
    IF s.remaining > 0 THEN [s EXCEPT !.remaining = @ - 1]
    ELSE [s EXCEPT !.refused = TRUE]

\* RateLimiter.Allow(), and the call sent when it returns true
ServedAllow ==
    /\ LET rr == AllowN(rl.limiter, now, 1)
       IN  /\ rl' = [rl EXCEPT !.limiter = rr.lim]
           /\ server' = IF rr.r.ok THEN ServerCall(server) ELSE server
    /\ UNCHANGED <<now, besideServer>>

\* A tick passes; a refill of the server that falls on the new time is made
\* before the calls of that time.
ServerElapse ==
    /\ now < MaxBucketTime
    /\ now' = now + 1
    /\ server' = IF ServerRefillDue(now', rl.refillInterval)
                   THEN ServerRefill(server, rl.maxCapacity, rl.refillAmount)
                   ELSE server
    /\ UNCHANGED <<rl, besideServer>>

\* The default bucket, and the buckets of NewRateLimiter with a finite rate.
ServedBuckets ==
    {DefaultRateLimiter} \cup
    {NewRateLimiter(u[1], u[2], u[3]) :
        u \in {v \in (1..MaxCapacity) \X (1..MaxRefillAmount)
                       \X (1..MaxRefillInterval) : v[3] \div v[2] >= 1}}

InitServer ==
    /\ now = 0
    /\ rl \in ServedBuckets
    /\ server = ServerBucket(rl.maxCapacity)
    /\ InitCall
    /\ InitBucketVars
    /\ InitCallers
    /\ InitNoWatch
    /\ InitNoPager
    /\ InitUnbuilt
    /\ InitNoLocks
    /\ calls = << >>

NextServer ==
    \/ ServedAllow
    \/ ServerElapse

SpecServer == InitServer /\ [][NextServer]_vars

---------------------------------------------------------------------------
(* The refill of a bucket that NewRateLimiter built, watched over a window   *)
(* of time and over the time in which nothing is taken from it.              *)

Taken(l) == idle' = [since |-> now, tokens |-> Tokens(l, now)]

\* RateLimiter.Allow()
RefillAllow ==
    /\ win.admitted <= MaxCapacity + MaxBucketTime * MaxRefillAmount
    /\ LET rr == AllowN(rl.limiter, now, 1)
       IN  /\ rl' = [rl EXCEPT !.limiter = rr.lim]
           /\ IF rr.r.ok
                THEN /\ Taken(rr.lim)
                     /\ win' = [win EXCEPT !.admitted = @ + 1]
                ELSE UNCHANGED <<idle, win>>
    /\ UNCHANGED <<now, besideRefill>>

\* RateLimiter.Reserve(), by a caller who acts on the reservation
RefillReserve ==
    /\ LET rr == ReserveN(rl.limiter, now, 1)
       IN  /\ rr.r.ok
           /\ rr.r.timeToAct <= MaxBucketTime
           /\ rl' = [rl EXCEPT !.limiter = rr.lim]
           /\ Taken(rr.lim)
    /\ UNCHANGED <<now, win, besideRefill>>

\* A window of time begins.
WindowBegins ==
    /\ win' = [from |-> now, admitted |-> 0]
    /\ UNCHANGED <<now, rl, idle, besideRefill>>

RefillElapse ==
    /\ now < MaxBucketTime
    /\ now' = now + 1
    /\ UNCHANGED <<rl, idle, win, besideRefill>>

\* The buckets NewRateLimiter builds, those included whose refillAmount does
\* not divide refillInterval.
RefillBuckets ==
    {NewRateLimiter(u[1], u[2], u[3]) :
        u \in {v \in (1..MaxCapacity) \X (1..MaxRefillAmount)
                       \X (1..(MaxRefillInterval + 1)) :
                  v[3] \div v[2] <= MaxRefillInterval}}

InitRefill ==
    /\ now = 0
    /\ rl \in RefillBuckets
    /\ InitCall
    /\ InitBucketVars
    /\ InitCallers
    /\ shadow = NewLimiter(0, 0)
    /\ idle = [since |-> 0, tokens |-> rl.limiter.tokens]
    /\ win = [from |-> 0, admitted |-> 0]
    /\ InitNoPager
    /\ InitNoNew

NextRefill ==
    \/ RefillAllow
    \/ RefillReserve
    \/ WindowBegins
    \/ RefillElapse

SpecRefill == InitRefill /\ [][NextRefill]_vars

---------------------------------------------------------------------------
(* A paginator over a listing of MaxPages pages.                             *)

\* The paginator as NewTradingPairsPaginator, NewHoldingsPaginator and
\* NewOrdersPaginator return it (client and fetcher set, no URL), and the
\* paginators whose nextURL code of package client has set.
InitPager ==
    /\ now = 0
    /\ rl = NewRateLimiter(1, 1, 1)
    /\ InitCall
    /\ InitBucketVars
    /\ InitCallers
    /\ InitNoWatch
    /\ pages \in Listings
    /\ made \in {"constructor", "literal"}
    /\ nextURL \in IF made = "constructor" THEN {EmptyURL}
                   ELSE {BareURL, BadURL}
                            \cup {URLWith(CursorOf(k)) : k \in 2..MaxPages}
                            \cup {BadURLWith(CursorOf(k)) : k \in 2..MaxPages}
    /\ prevURL = EmptyURL
    /\ run = NoRun
    /\ last = NoCall
    /\ fetches = 0
    /\ asked = << >>
    /\ InitNoNew

NextPager ==
    \/ \E fails \in BOOLEAN : Next_(fails)
    \/ \E fails \in BOOLEAN : Previous(fails)
    \/ \E fails \in BOOLEAN : GetAllPages(fails)
    \/ \E fails \in BOOLEAN : GetAllPagesLoop(fails)

SpecPager == InitPager /\ [][NextPager]_vars

\* The paginator driven forward only, by a fetcher that never fails; the loop
\* of GetAllPages, once entered, keeps running.
NextPagerForward ==
    \/ Next_(FALSE)
    \/ GetAllPages(FALSE)
    \/ GetAllPagesLoop(FALSE)

SpecPagerForward ==
    /\ InitPager
    /\ [][NextPagerForward]_vars
    /\ WF_vars(GetAllPagesLoop(FALSE))

---------------------------------------------------------------------------
(* The constructors on their own *)

InitNew ==
    /\ now = 0
    /\ rl = NewRateLimiter(1, 1, 1)
    /\ InitCall
    /\ InitBucketVars
    /\ InitCallers
    /\ InitNoWatch
    /\ InitNoPager
    /\ InitNoNew

NextNew ==
    \/ \E key \in APIKeys, bytes \in KeyBytes, damage \in Damages :
          NewAuthenticatorCall(key, bytes, damage)
    \/ \E key \in APIKeys, bytes \in KeyBytes, damage \in Damages :
          New(key, bytes, damage)

SpecNew == InitNew /\ [][NextNew]_vars

---------------------------------------------------------------------------
(* A bucket just made: Allow is called on it, time standing still, until it *)
(* returns false.                                                           *)

FreshBuckets ==
    {NewRateLimiter(c, a, i) :
        c \in 0..MaxCapacity, a \in 1..MaxRefillAmount, i \in 1..MaxRefillInterval}

\* The bucket is made at time 0 and first used at now.
InitFresh ==
    /\ now \in 0..MaxBucketTime
    /\ rl \in FreshBuckets
    /\ InitCall
    /\ InitBucketVars
    /\ InitCallers
    /\ InitNoWatch
    /\ InitNoPager
    /\ InitNoNew

\* RateLimiter.Allow() on the bucket just made
FreshAllow ==
    /\ ~firstRun.denied
    /\ firstRun.allowed <= rl.maxCapacity
    /\ LET rr == AllowN(rl.limiter, now, 1)
       IN  /\ rl' = [rl EXCEPT !.limiter = rr.lim]
           /\ firstRun' = IF rr.r.ok
                            THEN [firstRun EXCEPT !.allowed = @ + 1]
                            ELSE [firstRun EXCEPT !.denied = TRUE]
    /\ UNCHANGED <<now, besideFresh>>

SpecFresh == InitFresh /\ [][FreshAllow]_vars

---------------------------------------------------------------------------
(* Several logical calls at once on one client: each runs the retry loop of *)
(* Client.request on the client's one rate limiter.  Their contexts stay    *)
(* live, and what the server answers is left open.                          *)

NewCall ==
    [pc |-> "loop", attempt |-> 0, wakeAt |-> NoTimer, burst |-> 0, limit |-> 0,
     sent |-> 0, err |-> Nil]

\* The limiters of the client: built by NewRateLimiter, and the same after
\* SetLimit(0), which are never refilled.
SharedBuckets ==
    LET built == {NewRateLimiter(c, 1, MaxRefillInterval) : c \in 1..MaxCapacity}
    IN  built \cup {[b EXCEPT !.limiter = SetLimitAt(b.limiter, 0, 0)] : b \in built}

InitShared ==
    /\ now = 0
    /\ rl \in SharedBuckets
    /\ InitCall
    /\ InitBucketVars
    /\ InitCallers
    /\ InitNoWatch
    /\ InitNoPager
    /\ InitUnbuilt
    /\ InitNoLocks
    /\ InitNoServer
    /\ calls = [k \in 1..MaxCalls |-> NewCall]

\* for attempt := 0; attempt <= maxRetries; attempt++, and the entry of the
\* select on time.After
CallLoopHead(k) ==
    /\ calls[k].pc = "loop"
    /\ LET c == calls[k]
       IN  calls' = [calls EXCEPT ![k] =
             IF ~LoopRuns(c.attempt)
               THEN [c EXCEPT !.pc = "done",
                              !.err = Errorf("max retries exceeded", Nil)]
             ELSE IF c.attempt > 0
               THEN [c EXCEPT !.pc = "backoff",
                              !.wakeAt = now + BackoffDelay(c.attempt)]
             ELSE [c EXCEPT !.pc = "wait"]]
    /\ UNCHANGED <<now, rl, besideShared>>

\* case <-time.After(...)
CallBackoffTimer(k) ==
    /\ calls[k].pc = "backoff"
    /\ now >= calls[k].wakeAt
    /\ calls' = [calls EXCEPT ![k] = [@ EXCEPT !.pc = "wait", !.wakeAt = NoTimer]]
    /\ UNCHANGED <<now, rl, besideShared>>

\* rate.Limiter.Wait reads the burst and the limit.
CallWaitReads(k) ==
    /\ calls[k].pc = "wait"
    /\ calls' = [calls EXCEPT ![k] = [@ EXCEPT !.pc = "reserve",
                                               !.burst = rl.limiter.burst,
                                               !.limit = rl.limiter.limit]]
    /\ UNCHANGED <<now, rl, besideShared>>

\* rate.Limiter.Wait checks the burst it read and reserves a token; with no
\* delay Wait returns nil, and the request is built, signed and dispatched
\* by c.httpClient.Do(req), none of which touches the limiter.
CallWaitReserves(k) ==
    /\ calls[k].pc = "reserve"
    /\ LET rr == reserveN(rl.limiter, now, 1, InfDuration)
       IN  IF 1 > calls[k].burst /\ calls[k].limit # Inf
             THEN /\ calls' = [calls EXCEPT ![k] =
                       [@ EXCEPT !.pc = "done", !.burst = 0, !.limit = 0,
                                 !.err = Errorf("rate limiter error",
                                            Errorf("exceeds limiter's burst", Nil))]]
                  /\ UNCHANGED rl
           ELSE IF ~rr.r.ok
             THEN /\ calls' = [calls EXCEPT ![k] =
                       [@ EXCEPT !.pc = "done", !.burst = 0, !.limit = 0,
                                 !.err = Errorf("rate limiter error",
                                            Errorf("would exceed context deadline", Nil))]]
                  /\ UNCHANGED rl
           ELSE /\ rl' = [rl EXCEPT !.limiter = rr.lim]
                /\ calls' = [calls EXCEPT ![k] =
                     IF DelayFrom(rr.r, now) = 0
                       THEN [@ EXCEPT !.pc = "inflight", !.sent = @ + 1,
                                 !.burst = 0, !.limit = 0]
                       ELSE [@ EXCEPT !.pc = "waitSleep", !.burst = 0, !.limit = 0,
                                 !.wakeAt = rr.r.timeToAct]]
    /\ UNCHANGED <<now, besideShared>>

\* rate.Limiter.Wait: the timer fired, Wait returns nil, and the request is
\* built, signed and dispatched.
CallWaitTimer(k) ==
    /\ calls[k].pc = "waitSleep"
    /\ now >= calls[k].wakeAt
    /\ calls' = [calls EXCEPT ![k] = [@ EXCEPT !.pc = "inflight", !.sent = @ + 1,
                                               !.wakeAt = NoTimer]]
    /\ UNCHANGED <<now, rl, besideShared>>

\* A retryable outcome: continue
CallContinue(k) ==
    /\ calls[k].pc = "inflight"
    /\ calls' = [calls EXCEPT ![k] = [@ EXCEPT !.pc = "loop", !.attempt = @ + 1]]
    /\ UNCHANGED <<now, rl, besideShared>>

\* Another outcome: return resp, nil
CallReturn(k) ==
    /\ calls[k].pc = "inflight"
    /\ calls' = [calls EXCEPT ![k] = [@ EXCEPT !.pc = "done"]]
    /\ UNCHANGED <<now, rl, besideShared>>

\* Time passes while a call sleeps or waits for its response.
CallsTick ==
    /\ now < MaxTime
    /\ \E k \in 1..MaxCalls : calls[k].pc \in {"backoff", "waitSleep", "inflight"}
    /\ now' = now + 1
    /\ UNCHANGED <<rl, calls, besideShared>>

NextShared ==
    \/ \E k \in 1..MaxCalls : CallLoopHead(k)
    \/ \E k \in 1..MaxCalls : CallBackoffTimer(k)
    \/ \E k \in 1..MaxCalls : CallWaitReads(k)
    \/ \E k \in 1..MaxCalls : CallWaitReserves(k)
    \/ \E k \in 1..MaxCalls : CallWaitTimer(k)
    \/ \E k \in 1..MaxCalls : CallContinue(k)
    \/ \E k \in 1..MaxCalls : CallReturn(k)
    \/ CallsTick

SpecShared == InitShared /\ [][NextShared]_vars

---------------------------------------------------------------------------
(* PlaceOrder on its own *)

NextOrder ==
    \E request \in OrderRequests, doErr \in {Nil, Errorf("max retries exceeded", Nil)} :
        PlaceOrder(request, doErr)

SpecOrder == InitNew /\ [][NextOrder]_vars

---------------------------------------------------------------------------
\* An authenticator made from the documented credentials, and its signing.
NextSign ==
    \/ \E text \in {Base64Text(DocPrivateKey), DocFullKey} :
          NewAuthenticatorDoc(text)
    \/ \E method \in {GET, POST, DELETE}, path \in {DocPath, AccountsPath, CancelPath},
          body \in {<< >>, DocBody}, timestamp \in ClockReads :
          GetAuthHeadersCall(method, path, body, timestamp)

SpecSign == InitNew /\ [][NextSign]_vars

---------------------------------------------------------------------------
(* Properties of the retry loop *)

Ended == pc \in {"returned", "done"}

\* C1: a logical call calls the HTTP client at most 4 times, whatever the
\* outcomes; when every one of four attempts got HTTP 500 the call has made
\* exactly 4 dispatches and ends with the 'max retries exceeded' error.
C1_AtMostFourDispatches ==
    /\ dispatches <= doCalls
    /\ doCalls <= 4
    /\ (only500 /\ attempt = 4) =>
          /\ dispatches = 4
          /\ pc \in {"loop", "returned", "done"}
          /\ Ended => IsRetriesExhausted(reqRet.err)

C1_Witness ==
    /\ only500 /\ attempt = 4
    /\ pc = "returned"
    /\ IsRetriesExhausted(reqRet.err)
    /\ dispatches = 4

\* C2: when the context is never cancelled and an attempt gets a 2xx response
\* after k retryable outcomes, k in 0..3, the call has made exactly k + 1
\* dispatches and returns that response with a nil error.
C2_SuccessAfterRetries ==
    (lastStatus \in 200..299 /\ ctx = "live") =>
        /\ Ended
        /\ reqRet = Ret([StatusCode |-> lastStatus], Nil)
        /\ attempt \in 0..3
        /\ dispatches = attempt + 1
        /\ doCalls = dispatches
        /\ pc = "done" => doRet.kind # "APIError" /\ doRet.kind # "generic"

C2_Witness ==
    /\ only500 /\ attempt = 3
    /\ lastStatus = 200 /\ ctx = "live"
    /\ pc = "done" /\ doRet.kind = "nil"
    /\ dispatches = 4

\* A status that is neither success nor retried.
TerminalStatus(st) == st # 0 /\ st \notin 200..299 /\ st # 429 /\ st < 500

\* C3 (as stated): a response with a status outside 200..299 that is not 429
\* and is below 500 ends the call with that dispatch, without a retry, and the
\* caller receives an API error.
C3_TerminalIsAPIError ==
    TerminalStatus(lastStatus) =>
        /\ Ended
        /\ reqRet = Ret([StatusCode |-> lastStatus], Nil)
        /\ dispatches = attempt + 1
        /\ doCalls = dispatches
        /\ pc = "done" => /\ doRet.kind \in {"APIError", "generic"}
                          /\ doRet.StatusCode = lastStatus

\* C3 (amended): such a response ends the call with that dispatch, without a
\* retry, and the caller receives an error, never success: the API error made
\* from the status and the body when the body could be read, the error of the
\* read when it could not.
C3_TerminalIsError ==
    TerminalStatus(lastStatus) =>
        /\ Ended
        /\ reqRet = Ret([StatusCode |-> lastStatus], Nil)
        /\ dispatches = attempt + 1
        /\ doCalls = dispatches
        /\ pc = "done" =>
              IF respBody.ok
                THEN /\ doRet.kind \in {"APIError", "generic"}
                     /\ doRet.StatusCode = lastStatus
                ELSE /\ doRet.kind = "error"
                     /\ doRet.err = Errorf("failed to read response body", Nil)

C3_Witness ==
    /\ lastStatus = 404
    /\ pc = "done"
    /\ respBody.ok
    /\ doRet.kind = "APIError" /\ doRet.StatusCode = 404
    /\ dispatches = 1

\* C4: the 'max retries exceeded' error wraps the transient error recorded
\* by the last attempt, the one numbered maxRetries (the fourth).
C4_WrapsLastAttempt ==
    (Ended /\ IsRetriesExhausted(reqRet.err)) =>
        /\ attempt = 4
        /\ Len(reqRet.err) >= 2
        /\ Tail(reqRet.err) = lastErr
        /\ reqRet.err[2].attempt = 3
        /\ lastStatus = 500 => reqRet.err[2] = Layer("server error", 500, 3)
        /\ lastStatus = 429 => reqRet.err[2] = Layer("rate limited (429)", 429, 3)
        /\ lastStatus = 0 => reqRet.err[2] = Layer("request failed", 0, 3)

C4_Witness ==
    /\ pc = "returned"
    /\ IsRetriesExhausted(reqRet.err)
    /\ ~only500
    /\ reqRet.err[2] = Layer("server error", 500, 3)

C6_CancellationDistinct ==
    (Ended /\ IsCancellation(reqRet.err)) => ~IsRetriesExhausted(reqRet.err)

\* The body has the documented shape {type, errors: [{attr, detail}]}.
IsErrorItem(j) ==
    /\ j.k = "object"
    /\ HasKey(j, "detail") /\ Field(j, "detail").k = "string"
    /\ HasKey(j, "attr") /\ Field(j, "attr").k \in {"string", "null"}

InShape(j) ==
    /\ j.k = "object"
    /\ HasKey(j, "type") /\ Field(j, "type").k = "string"
    /\ HasKey(j, "errors") /\ Field(j, "errors").k = "array"
    /\ \A i \in 1..Len(Field(j, "errors").a) : IsErrorItem(Field(j, "errors").a[i])

ShapeErrors(j) ==
    [i \in 1..Len(Field(j, "errors").a) |->
        [Attr |-> Field(Field(j, "errors").a[i], "attr").s,
         Detail |-> Field(Field(j, "errors").a[i], "detail").s]]

\* C7: a terminal non-2xx response whose body was read gives the structured
\* APIError (status, type, list of attr/detail) when the body is JSON of the
\* documented shape, and the generic error with the raw status and body,
\* not an APIError, when it is not.
C7_StructuredOrGeneric ==
    (pc = "done" /\ reqRet.err = Nil /\ respBody.ok
        /\ reqRet.resp.StatusCode \notin 200..299) =>
        IF InShape(respBody.body)
          THEN doRet = DoResult("APIError", Nil, reqRet.resp.StatusCode,
                                Field(respBody.body, "type").s,
                                ShapeErrors(respBody.body), JNull)
          ELSE doRet = DoResult("generic", Nil, reqRet.resp.StatusCode, "", << >>,
                                respBody.body)

\* C8: the body sent by every attempt is the same, and is the body string the
\* signature of that attempt covers.
C8_SameBodyEveryAttempt ==
    pc = "inflight" => req.body = bodyStr /\ req.body = req.signedBody

\* C9: the request of every attempt carries headers computed in that attempt,
\* from the timestamp read in it; an attempt never carries the timestamp or
\* the signature of the attempt before.
C9_FreshHeadersPerAttempt ==
    /\ [](pc \in {"do", "inflight"} =>
            /\ req.attempt = attempt
            /\ req.timestamp <= now
            /\ pc = "do" => req.timestamp = now
            /\ req.headers = GetAuthHeaders(in.method, PathWithQuery(in.path, in.query),
                                            bodyStr, req.timestamp))
    /\ [][(pc = "build" /\ pc' = "do" /\ req.attempt # NoAttempt) =>
            /\ req'.headers.x_timestamp # req.headers.x_timestamp
            /\ req'.headers.x_signature # req.headers.x_signature]_vars

C9_Witness ==
    /\ pc = "inflight"
    /\ attempt = 1 /\ req.attempt = 1
    /\ req.timestamp >= 1
    /\ req.headers.x_timestamp = FormatInt(req.timestamp)

---------------------------------------------------------------------------
(* Properties of the bucket *)

\* C10 (as stated): of the Allow calls made on a bucket of capacity C with no
\* time passing between them, at most C return true before one returns false.
C10_AtMostCapacity == allowRun <= runCap

\* C10 (amended): the same, for a bucket whose refill rate is finite.
C10_AtMostCapacityFinite == rl.limiter.limit # Inf => allowRun <= runCap

C10_Witness ==
    /\ rl.limiter.limit \notin {0, Inf}
    /\ runCap = MaxCapacity
    /\ allowRun = runCap
    /\ now > 0

\* C16 (as stated): after SetBurst(n), however long the bucket stays idle, at
\* most n Allow calls in a row succeed, also when the bucket held more than n
\* tokens when SetBurst was called.
C16_ClampedToNewBurst == burstSet => allowRun <= rl.maxCapacity

\* C16 (amended): the same, for a bucket whose refill rate is finite.
C16_ClampedToNewBurstFinite ==
    (burstSet /\ rl.limiter.limit # Inf) => allowRun <= rl.maxCapacity

C16_Witness ==
    /\ burstSet
    /\ runAfterCut
    /\ rl.limiter.limit \notin {0, Inf}
    /\ rl.maxCapacity >= 1
    /\ allowRun = rl.maxCapacity

---------------------------------------------------------------------------
(* Properties of the shared bucket *)

\* C11 (as stated): in every reachable state of a bucket the token count that
\* Tokens reports is at least 0 and at most the capacity.
C11_TokensInRange ==
    /\ Tokens(rl.limiter, now) >= 0
    /\ Tokens(rl.limiter, now) <= rl.limiter.burst * TokenScale

\* C11 (amended): the token count that Tokens reports is at most the capacity
\* in every reachable state, and at least 0 as long as no Reserve and no Wait
\* has been granted a token that was not yet available.
C11_TokensInRangeUnpromised ==
    /\ Tokens(rl.limiter, now) <= rl.limiter.burst * TokenScale
    /\ ~promised => Tokens(rl.limiter, now) >= 0

C11_Witness ==
    /\ ~promised
    /\ rl.limiter.burst = MaxCapacity
    /\ Tokens(rl.limiter, now) = 0
    /\ rl.limiter.limit \notin {0, Inf}
    /\ now > 0

\* C12 (as stated): a Wait whose context is already cancelled when Wait looks
\* at it returns a cancellation error and leaves the bucket as it was.
C12_CancelledWaitTakesNothing ==
    [][(waiter.pc = "called" /\ waiter.ctx = "done" /\ waiter'.pc = "idle")
         => (rl' = rl /\ IsCancellation(waiter'.ret))]_vars

\* C12 (amended): the same of a bucket whose capacity was at least 1, or
\* whose rate was rate.Inf, when Wait was called.
C12_CancelledWaitTakesNothingOfBurst ==
    [][(/\ waiter.pc = "called"
        /\ waiter.ctx = "done"
        /\ waiter'.pc = "idle"
        /\ (waiter.burst >= 1 \/ waiter.limit = Inf))
         => (rl' = rl /\ IsCancellation(waiter'.ret))]_vars

\* A cancelled Wait has returned the cancellation error of a bucket that would
\* have made it sleep.
C12_Witness ==
    /\ waiter.pc = "idle"
    /\ waiter.ctx = "done"
    /\ IsCancellation(waiter.ret)
    /\ rl.limiter.burst >= 1
    /\ rl.limiter.limit \notin {0, Inf}
    /\ Tokens(rl.limiter, now) < TokenScale
    /\ ~promised

C18_GrantsWithinCapacity == grants <= grantCap

\* C18 (amended): the same of a bucket whose rate is not rate.Inf.
C18_GrantsWithinCapacityFinite ==
    rl.limiter.limit # Inf => grants <= grantCap

\* The whole capacity was granted without delay, one token to a Reserve, and
\* a Wait called in the same instant has to sleep.
C18_Witness ==
    /\ rl.limiter.limit \notin {0, Inf}
    /\ grantCap = MaxCapacity
    /\ grants = grantCap
    /\ holder.pc = "holding"
    /\ holder.r.ok
    /\ holder.r.timeToAct <= now
    /\ waiter.pc = "sleeping"
    /\ waiter.resv.timeToAct > now

\* C13: when the context is cancelled while a Wait sleeps, the Wait returns a
\* cancellation error and the token count afterwards is what it would be had
\* that Wait never been called, whatever the other callers did meanwhile.
C13_CancelledWaitLeavesNoTrace ==
    [][(waiter.pc = "sleeping" /\ waiter'.pc = "idle" /\ waiter.ctx # "live"
        /\ IsCancellation(waiter'.ret))
         => Tokens(rl'.limiter, now) = Tokens(shadow', now)]_vars

\* A Wait that slept has returned the cancellation error, and the count is
\* below the one of the bucket that never saw the Wait.
C13_Witness ==
    /\ waiter.pc = "idle"
    /\ waiter.ctx = "done"
    /\ IsCancellation(waiter.ret)
    /\ Tokens(rl.limiter, now) < Tokens(shadow, now)

---------------------------------------------------------------------------
(* Properties of the refill *)

\* C15 (as stated): whatever the bucket held, when nothing is taken from it
\* for one full refill interval, Tokens() at the end is within less than a
\* token of the capacity and does not exceed it.
C15_FullAfterInterval ==
    now - idle.since = rl.refillInterval =>
        /\ Tokens(rl.limiter, now) <= rl.maxCapacity * TokenScale
        /\ Tokens(rl.limiter, now) > (rl.maxCapacity - 1) * TokenScale

\* C15 (amended): whatever the bucket held, when nothing is taken from it for
\* one full refill interval, Tokens() at the end does not exceed the capacity
\* and is at least the count at the start plus refillAmount, or the capacity
\* if that is less.
C15_RefilledByAmount ==
    now - idle.since = rl.refillInterval =>
        /\ Tokens(rl.limiter, now) <= rl.maxCapacity * TokenScale
        /\ Tokens(rl.limiter, now) >=
               Min(rl.maxCapacity * TokenScale,
                   idle.tokens + rl.refillAmount * TokenScale)

\* A bucket of finite rate emptied below its capacity less refillAmount has
\* idled for one refill interval and is not full.
C15_Witness ==
    /\ now - idle.since = rl.refillInterval
    /\ rl.limiter.limit # Inf
    /\ idle.tokens + rl.refillAmount * TokenScale < rl.maxCapacity * TokenScale
    /\ Tokens(rl.limiter, now) < rl.maxCapacity * TokenScale

\* C17: in every window of length T the calls admitted are at most
\* capacity + T * refillAmount / refillInterval, also when refillAmount does
\* not divide refillInterval.
C17_WindowBound ==
    win.admitted * rl.refillInterval <=
        rl.maxCapacity * rl.refillInterval + (now - win.from) * rl.refillAmount

\* The bound is passed by a bucket of finite rate.
C17_Witness ==
    /\ rl.limiter.limit # Inf
    /\ rl.refillInterval % rl.refillAmount # 0
    /\ win.admitted * rl.refillInterval >
        rl.maxCapacity * rl.refillInterval + (now - win.from) * rl.refillAmount

---------------------------------------------------------------------------
(* Properties of the paginator *)

RECURSIVE ResultsFrom(_)
\* The results of the pages from page k on, in page order.
ResultsFrom(k) ==
    IF k > MaxPages THEN << >> ELSE pages[k].Results \o ResultsFrom(k + 1)

\* C19: GetAllPages on a paginator made for a fetcher that serves MaxPages
\* pages, the last with an empty next, returns the results of all the pages in
\* page order and calls the fetcher MaxPages times, whatever the previous of
\* the responses.
C19_AllPagesInOrder ==
    (/\ last.op = "GetAllPages"
     /\ last.fresh
     /\ made = "constructor"
     /\ last.err = Nil)
        => (last.results = ResultsFrom(1) /\ last.fetched = MaxPages)

\* GetAllPages on a paginator as its constructor returned it has returned
\* nothing, without a call of the fetcher.
C19_Witness ==
    /\ last.op = "GetAllPages"
    /\ last.fresh
    /\ made = "constructor"
    /\ last.err = Nil
    /\ last.results = << >>
    /\ last.fetched = 0

\* C20: Next on a paginator whose HasNext is false returns an empty result and
\* no error, calls the fetcher not once and leaves nextURL and prevURL as
\* they were.
C20_NextAtEndDoesNothing ==
    [][(last'.op = "Next" /\ run.pc = "idle" /\ run'.pc = "idle"
        /\ nextURL = EmptyURL)
         => (/\ last'.results = << >>
             /\ last'.err = Nil
             /\ last'.fetched = 0
             /\ fetches' = fetches
             /\ nextURL' = nextURL
             /\ prevURL' = prevURL)]_vars

\* Next was called at the end of a listing that was fetched, with a previous
\* page to go back to.
C20_Witness ==
    /\ last.op = "Next"
    /\ last.fetched = 0
    /\ last.results = << >>
    /\ last.err = Nil
    /\ nextURL = EmptyURL
    /\ prevURL # EmptyURL
    /\ fetches > 0

\* C21: on a paginator fresh from its constructor the first Next calls the
\* fetcher and returns the first page of the listing.
C21_FirstNextFetchesFirstPage ==
    (/\ last.op = "Next"
     /\ last.fresh
     /\ made = "constructor"
     /\ last.err = Nil)
        => (last.fetched = 1 /\ last.results = pages[1].Results)

\* The first Next on a paginator fresh from its constructor has returned
\* nothing, without a call of the fetcher, and HasNext is false.
C21_Witness ==
    /\ last.op = "Next"
    /\ last.fresh
    /\ made = "constructor"
    /\ last.err = Nil
    /\ last.results = << >>
    /\ last.fetched = 0
    /\ fetches = 0
    /\ ~HasNext(nextURL)

\* The cursors passed to the fetcher by the entries of a log that satisfy
\* keep are pairwise distinct.
DistinctCursors(keep(_)) ==
    \A i, j \in 1..Len(asked) :
        (i < j /\ keep(asked[i]) /\ keep(asked[j]))
            => asked[i].cursor # asked[j].cursor

AnyFetch(a) == TRUE

PageFetched(a) == ~a.failed

C23_GetAllPagesReturns ==
    (run.pc = "loop") ~>
        (/\ run.pc = "idle"
         /\ last.op = "GetAllPages"
         /\ last.err = Nil
         /\ last.fetched <= MaxPages
         /\ ~HasNext(nextURL))

\* GetAllPages has returned every page of the listing after a fetch per page.
C23_Witness ==
    /\ run.pc = "idle"
    /\ last.op = "GetAllPages"
    /\ last.err = Nil
    /\ last.fetched = MaxPages
    /\ last.results = ResultsFrom(1)
    /\ ~HasNext(nextURL)

---------------------------------------------------------------------------
(* Properties of the constructors *)

\* The text passed is the base64 encoding of a key of the right size (line
\* breaks in it are skipped by the decoder).
WellFormedKey ==
    /\ newArgs.damage \in {"none", "line break"}
    /\ Len(newArgs.bytes) = PrivateKeySize

\* C24: NewAuthenticator, and with it client.New, returns an error and no
\* authenticator or client when the private key text does not decode or
\* decodes to other than 64 bytes; for a well-formed key it returns, without
\* error, an authenticator holding the decoded key, also when the API key is
\* empty.
C24_KeyMustDecodeTo64Bytes ==
    newRet.by # "none" =>
        IF WellFormedKey
          THEN /\ newRet.err = Nil
               /\ ~newRet.auth.nil
               /\ newRet.auth.privateKey = newArgs.bytes
               /\ newRet.auth.apiKey = newArgs.apiKey
               /\ newRet.by = "New" => ~newRet.client.nil
          ELSE /\ newRet.err # Nil
               /\ newRet.auth.nil
               /\ newRet.client.nil

C24_Witness ==
    /\ newRet.by = "New"
    /\ newArgs.damage = "none"
    /\ Len(newArgs.bytes) = PrivateKeySize - 1
    /\ newRet.client.nil
    /\ newRet.err[1].msg = "failed to create authenticator"
    /\ newRet.err[2].msg = "invalid private key size"

\* The message the server verifies the signature over: the fields of the
\* request as documented, in the documented order.
DocMessage == DocAPIKey \o DocTimestampText \o DocPath \o POST \o DocBody

SignedDocExample ==
    /\ signed.called
    /\ newArgs.text = DocFullKey
    /\ signed.method = POST
    /\ signed.path = DocPath
    /\ signed.body = DocBody
    /\ signed.timestamp = DocTimestamp

\* C25: the signature GetAuthHeaders makes for the documented example (API
\* key, POST, the orders path, the documented body, timestamp 1698708981,
\* the key made of the documented seed and public key) verifies against the
\* documented public key over the message api_key + timestamp + path +
\* method + body.
C25_DocExampleVerifies ==
    SignedDocExample =>
        /\ Verify(Base64DecodeString(Base64Text(DocPublicKey)).bytes,
                  DocMessage, signed.headers.x_signature)
        /\ signed.headers.x_api_key = DocAPIKey
        /\ signed.headers.x_timestamp = DocTimestampText

C25_Witness ==
    /\ SignedDocExample
    /\ ~newRet.auth.nil
    /\ Len(signed.headers.x_signature.msg) = Len(DocMessage)

---------------------------------------------------------------------------
(* Properties of a bucket just made *)

---------------------------------------------------------------------------
(* Properties of PlaceOrder *)

\* The request lacks nothing but the client order id.
OnlyClientOrderIDMissing ==
    /\ placed.called
    /\ placed.req.ClientOrderID = << >>
    /\ validateAnyClientOrderID(placed.req) = Nil

\* C27: PlaceOrder called with a request whose ClientOrderID is empty and
\* which is valid otherwise generates a client order id and dispatches the
\* order request.
C27_ClientOrderIDGenerated ==
    OnlyClientOrderIDMissing =>
        /\ placed.dispatched
        /\ placed.body.client_order_id # << >>

C27_Witness ==
    /\ OnlyClientOrderIDMissing
    /\ placed.req.Type = "market"
    /\ placed.req.Config.AssetQuantity = 1
    /\ ~placed.dispatched
    /\ placed.err[1].msg = "client_order_id is required"

---------------------------------------------------------------------------
(* Properties of an attempt *)

\* The attempt under way has been admitted: its Wait has returned nil.
Admitted == pc \in {"build", "do", "inflight"}

BackoffSum(a) == retryDelay * ((a * (a + 1)) \div 2)

\* C29: no sleep precedes attempt 0; the sleep before attempt n (1, 2, 3)
\* is one of retryDelay * n; so attempt n is not under way earlier than
\* retryDelay * (1 + ... + n) after the first attempt failed, which for the
\* 4th dispatch is 6 delay units.
C29_LinearBackoff ==
    /\ attempt = 0 => (pc # "backoff" /\ sleepFrom = NoTimer)
    /\ pc = "backoff" =>
         /\ attempt \in 1..maxRetries
         /\ wakeAt = sleepFrom + retryDelay * attempt
    /\ (attempt >= 1 /\ pc \in {"wait", "waitSleep", "build", "do", "inflight"})
         => now >= firstFailedAt + BackoffSum(attempt)

C29_Witness ==
    /\ pc = "inflight"
    /\ attempt = maxRetries
    /\ dispatches = maxRetries + 1
    /\ ~ctxDone
    /\ now = firstFailedAt + BackoffSum(maxRetries)

---------------------------------------------------------------------------
(* Properties of the calls that share a client *)

RECURSIVE SentBy(_)
SentBy(k) == IF k = 0 THEN 0 ELSE calls[k].sent + SentBy(k - 1)

\* The requests dispatched by all the calls together.
TotalSent == SentBy(Len(calls))

\* Since the run began the bucket has been refilled with nothing: its rate
\* is 0, or no time has passed.
NoRefill == tokensFromDuration(rl.limiter.limit, now) = 0

\* C30: the logical calls that run at once on one client are admitted by its
\* one bucket: with capacity C and no refill during the run, the requests
\* dispatched by all the calls together, retries included, are at most C.
C30_SharedBucketBoundsDispatches == NoRefill => TotalSent <= rl.maxCapacity

C30_Witness ==
    /\ now > 0
    /\ NoRefill
    /\ rl.maxCapacity = MaxCapacity
    /\ TotalSent = MaxCapacity
    /\ calls[1].sent >= 1
    /\ calls[1].attempt >= 1
    /\ calls[1].pc = "done"
    /\ calls[1].err # Nil
    /\ calls[1].err[1].msg = "rate limiter error"
    /\ calls[2].sent >= 1

---------------------------------------------------------------------------
(* Properties of a Wait and its deadline *)

\* The cancellation signal of the Wait has fired: the context is done.
SignalFired == waiter.ctx # "live"

\* The error is the one of a context that is done.
IsContextErr(err) == IsCancellation(err) \/ err = DeadlineExceeded

\* C31: Wait returns in two ways only: success, with one token consumed for
\* the caller, or the error of the cancellation signal after that signal has
\* fired; it returns no error while the signal has not fired, a deadline that
\* still lies in the future included.
C31_WaitReturnsTwoWays ==
    [][(waiter.pc # "idle" /\ waiter'.pc = "idle")
         => \/ /\ waiter'.ret = Nil
               /\ waiter.pc = "called"
                    => Tokens(rl'.limiter, now) = Tokens(rl.limiter, now) - TokenScale
            \/ /\ IsContextErr(waiter'.ret)
               /\ SignalFired]_vars

\* A Wait on a bucket of capacity 1 or more and of a rate that refills has
\* returned an error that is not the context's, its context live and its
\* deadline still ahead.
C31_Witness ==
    /\ waiter.pc = "idle"
    /\ waiter.ret = Errorf("would exceed context deadline", Nil)
    /\ waiter.ctx = "live"
    /\ waiter.deadline # NoTimer
    /\ waiter.deadline > now
    /\ rl.limiter.burst >= 1
    /\ rl.limiter.limit \notin {0, Inf}
    /\ reconfigs = 0

\* C32: on a bucket of capacity 1 or more and a positive refill rate, a Wait
\* whose cancellation signal never fires returns in the end, and with
\* success, also when the bucket was empty at the call and other callers
\* keep taking tokens.
C32_WaitNotStarved ==
    /\ [](waiter.ret = Nil)
    /\ (waiter.pc = "called") ~> (waiter.pc = "idle" /\ waiter.ret = Nil)

\* A Wait called on an empty bucket has slept, another caller has reserved
\* after it, and its token is due.
C32_Witness ==
    /\ waiter.pc = "sleeping"
    /\ waiter.ctx = "live"
    /\ now > 0
    /\ now = waiter.resv.timeToAct
    /\ holder.pc = "holding"
    /\ holder.r.timeToAct > waiter.resv.timeToAct

---------------------------------------------------------------------------
(* Properties of the mutexes *)

\* The goroutine stands before a Lock of a mutex that another one holds.
Blocked(t) ==
    \/ ops[t].pc = "lockMu" /\ held.mu # 0
    \/ ops[t].pc \in LimLockPcs /\ held.lim # 0

\* Who holds the mutex the goroutine stands before.
Holder(t) == IF ops[t].pc = "lockMu" THEN held.mu ELSE held.lim

\* The goroutine is inside a method and neither asleep nor blocked.
Runs(t) == ops[t].pc \notin {"idle", "sleeping"} /\ ~Blocked(t)

\* C33: no mutex of the bucket is held across the sleep of a Wait: while a
\* caller sleeps in Wait, the Allow, Tokens, Reserve, SetBurst and SetLimit
\* of other callers never wait for it, and no interleaving deadlocks: who
\* waits for a mutex waits for a goroutine that runs, or for one that waits
\* for a goroutine that runs.
C33_NoLockAcrossSleep ==
    /\ \A t \in DOMAIN ops :
         ops[t].pc \in {"idle", "sleeping"} => (held.mu # t /\ held.lim # t)
    /\ \A t \in DOMAIN ops :
         Blocked(t) => \/ Runs(Holder(t))
                       \/ /\ Blocked(Holder(t))
                          /\ Runs(Holder(Holder(t)))

\* The caller of Wait sleeps while a SetBurst or SetLimit of another caller
\* holds both mutexes and the Allow, Tokens or Reserve of a third waits for
\* rate.Limiter.mu.
C33_Witness ==
    /\ DOMAIN ops = Threads
    /\ ops[Waiter].pc = "sleeping"
    /\ now < ops[Waiter].resv.timeToAct
    /\ \E t, u \in Others :
         /\ ops[t].pc = "locked"
         /\ held.mu = t
         /\ held.lim = t
         /\ ops[u].pc = "lockLim"
         /\ ops[u].op \in {"Allow", "Tokens", "Reserve"}

---------------------------------------------------------------------------
(* Properties of an Allow that returned false *)

\* What rate.Limiter.Wait would do now with a context never done: the burst
\* and the limit it reads, and its reservation.
WaitOutcome(l) ==
    [burst |-> l.burst, limit |-> l.limit,
     resv |-> reserveN(l, now, 1, InfDuration)]

\* C34: an Allow that returns false leaves the bucket as it was: no token
\* is taken, and every later Allow, Wait and Reserve has the outcome it would
\* have had, had the Allow that was refused never been called.
C34_DeniedAllowLeavesNoTrace ==
    /\ Tokens(rl.limiter, now) = Tokens(shadow, now)
    /\ AllowN(rl.limiter, now, 1) = AllowN(shadow, now, 1)
    /\ ReserveN(rl.limiter, now, 1) = ReserveN(shadow, now, 1)
    /\ WaitOutcome(rl.limiter) = WaitOutcome(shadow)

\* Allow has returned false on a bucket of capacity 1 or more that had been
\* used and had refilled in part, and time has passed since.
C34_Witness ==
    /\ firstRun.denied
    /\ firstRun.allowed >= 1
    /\ rl.limiter.burst >= 1
    /\ rl.limiter.limit \notin {0, Inf}
    /\ rl.limiter.last < now
    /\ Tokens(rl.limiter, now) > 0
    /\ ~AllowN(rl.limiter, now, 1).r.ok

---------------------------------------------------------------------------
(* Properties of the paginator's cursors *)

\* A call of Next or Previous has returned a page it fetched.
PageReturned(l) ==
    /\ l.op \in {"Next", "Previous"}
    /\ l.err = Nil
    /\ l.fetched = 1

\* C35: after a Next or Previous that returned a page, nextURL and prevURL
\* are the next and previous of the response that page came in, so HasNext
\* and HasPrevious tell whether that response's next and previous are
\* non-empty; and whenever a cursor changes, both are of one response.
C35_CursorsFromOneResponse ==
    [][/\ (run.pc = "idle" /\ run'.pc = "idle" /\ PageReturned(last'))
           => LET resp == pages[last'.results[1]]
              IN  /\ nextURL' = resp.Next
                  /\ prevURL' = resp.Previous
                  /\ HasNext(nextURL') <=> resp.Next # EmptyURL
                  /\ HasPrevious(prevURL') <=> resp.Previous # EmptyURL
       /\ (nextURL' # nextURL \/ prevURL' # prevURL)
           => \E k \in 1..MaxPages :
                  nextURL' = pages[k].Next /\ prevURL' = pages[k].Previous]_vars

\* Previous has returned a page in the middle of the listing, after Next had
\* returned one with another previous.
C35_Witness ==
    /\ run.pc = "idle"
    /\ PageReturned(last)
    /\ last.op = "Previous"
    /\ fetches >= 2
    /\ nextURL = pages[last.results[1]].Next
    /\ prevURL = pages[last.results[1]].Previous
    /\ nextURL # EmptyURL
    /\ prevURL # EmptyURL
    /\ \E k \in 1..MaxPages : pages[k].Previous # prevURL /\ pages[k].Next # nextURL

\* The value written for the cursor parameter in the text of a URL; none is
\* the empty value.
QueryCursor(u) == u.cursor

FetchFailed(l) ==
    /\ l.op \in {"Next", "Previous"}
    /\ l.err # Nil

\* C37: a Next or Previous whose fetch returns an error leaves nextURL and
\* prevURL as they were; the Next that follows a failed Next passes the same
\* cursor again, and when it succeeds it returns the page that had failed.
C37_FailedFetchKeepsCursors ==
    [][/\ (run.pc = "idle" /\ run'.pc = "idle" /\ FetchFailed(last')
            /\ fetches' = fetches + 1)
           => /\ nextURL' = nextURL
              /\ prevURL' = prevURL
              /\ last'.err = FetcherErr
              /\ last'.results = << >>
       /\ (run.pc = "idle" /\ run'.pc = "idle" /\ FetchFailed(last)
            /\ last.op = "Next" /\ last'.op = "Next" /\ fetches' = fetches + 1)
           => /\ asked'[Len(asked')].cursor = asked[Len(asked)].cursor
              /\ last'.err = Nil
                     => last'.results = pages[PageOf(asked[Len(asked)].cursor)].Results]_vars

\* A Next for a page after the first failed, and the Next after it returned
\* that page.
C37_Witness ==
    /\ PageReturned(last)
    /\ last.op = "Next"
    /\ Len(asked) >= 2
    /\ asked[Len(asked) - 1].failed
    /\ ~asked[Len(asked)].failed
    /\ asked[Len(asked)].cursor = asked[Len(asked) - 1].cursor
    /\ asked[Len(asked)].cursor # << >>
    /\ last.results = pages[PageOf(asked[Len(asked)].cursor)].Results

\* GetAllPages has returned the error of the fetcher.
GetAllPagesFailed(l) ==
    /\ l.op = "GetAllPages"
    /\ l.err # Nil

\* C38: when a fetch fails in GetAllPages after pages were fetched,
\* GetAllPages returns the error and no results, and nextURL stays the URL
\* of the page that failed; the next GetAllPages on the paginator asks for
\* that page first and collects it first.
C38_GetAllPagesFailsWhole ==
    [][/\ (run.pc = "loop" /\ run.fetched >= 1 /\ run'.pc = "idle"
            /\ GetAllPagesFailed(last'))
           => /\ last'.results = << >>
              /\ last'.err = FetcherErr
              /\ nextURL' = nextURL
              /\ prevURL' = prevURL
              /\ HasNext(nextURL')
              /\ asked'[Len(asked')].cursor = extractCursor(nextURL')
       /\ (run.pc = "idle" /\ GetAllPagesFailed(last) /\ fetches < MaxFetches
            /\ (run'.pc = "loop" \/ (last'.op = "GetAllPages" /\ last' # last)))
           => /\ fetches' = fetches + 1
              /\ asked'[Len(asked')].cursor = asked[Len(asked)].cursor
              /\ run'.pc = "loop"
                     => run'.all = pages[PageOf(asked[Len(asked)].cursor)].Results]_vars

\* GetAllPages failed at a page after it had fetched one, and the GetAllPages
\* after it has fetched the page that failed as its first.
C38_Witness ==
    /\ GetAllPagesFailed(last)
    /\ last.fetched >= 2
    /\ last.results = << >>
    /\ run.pc = "loop"
    /\ run.fetched = 1
    /\ Len(asked) >= 3
    /\ asked[Len(asked) - 1].failed
    /\ ~asked[Len(asked) - 2].failed
    /\ asked[Len(asked)].cursor = asked[Len(asked) - 1].cursor
    /\ run.all = pages[PageOf(asked[Len(asked)].cursor)].Results

---------------------------------------------------------------------------
(* The client's bucket against the documented bucket *)

\* C39: no call that the client's bucket admitted finds the documented bucket
\* of the same configuration empty.
C39_AdmittedLocallyServedRemotely == ~server.refused

\* The default bucket gave out its 300 tokens at once and admitted a call
\* 600 ms later, which found the documented bucket empty, its first refill
\* being due after a minute.
C39_Witness ==
    /\ rl.maxCapacity = 300
    /\ rl.refillAmount = 100
    /\ rl.refillInterval = Minute
    /\ now = 1
    /\ rl.limiter.last = 1
    /\ rl.limiter.tokens = 0
    /\ server.remaining = 0
    /\ server.refused

====
